---- MODULE Spec2Model ----
(***************************************************************************)
(* A model of the incremental time-series cache layer of openmeteo-py-df:  *)
(* src/src/openmeteo/cache.py (HistoricalCache) and                        *)
(* src/src/openmeteo/client.py (OpenMeteoClient._merge_data,               *)
(* get_historical), and of the in-memory forecast cache (ForecastCache).   *)
(*                                                                         *)
(* Encoding of Python values:                                              *)
(*   - a date is the tuple <<year, month, day>>;                           *)
(*   - an ISO-8601 string is the tuple of its zero-padded numeric fields,  *)
(*     "YYYY-MM" = <<y, m>>, "YYYY-MM-DD" = <<y, m, d>>,                   *)
(*     "YYYY-MM-DDThh:mm" = <<y, m, d, h, mi>>; string comparison is the   *)
(*     lexicographic comparison of these tuples (StrLE), a proper prefix   *)
(*     being smaller, as for the strings themselves;                       *)
(*   - a dict is a function whose DOMAIN is its key set;                   *)
(*   - Optional[X] is a sequence of length <= 1: None = <<>>, x = <<x>>;   *)
(*   - a column (a value of the "hourly"/"daily" dict) is a record         *)
(*     [null, list]: null = TRUE is Python's None, otherwise list is the   *)
(*     Python list;                                                        *)
(*   - a timezone-aware datetime is its number of minutes since the day    *)
(*     before 0001-01-01T00:00 UTC (1440 * toordinal() + minutes of day),  *)
(*     a timedelta is a number of minutes.                                 *)
(***************************************************************************)
EXTENDS Integers, Sequences, FiniteSets, TLC

VARIABLES
    \* ---- the merge engine applied to arbitrary fragments (SpecMerge)
    m_pc,          \* "input" (arguments chosen) or "merged" (_merge_data returned)
    m_step,        \* the TimeStep argument
    m_existing,    \* the `existing` argument, Optional[dict]
    m_new,         \* the `new` argument, a dict
    m_result,      \* the returned dict, Optional (None until the call returned)
    m_calls,       \* number of _merge_data calls made on this accumulator
    \* ---- OpenMeteoClient / HistoricalCache (Spec)
    today,         \* datetime.now(tz=utc).date()
    files,         \* the cache directory: file name -> file content
    pc,            \* position of the get_historical coroutine
    req,           \* arguments of the running get_historical call
    missing_months,\* local `missing_months` of get_historical
    idx,           \* position of the `for month_key in missing_months` loop (1-based)
    merged_data,   \* local `merged_data` at the end of the merge pass, Optional[dict]
    folded,        \* month keys passed to _merge_data so far, in call order
    response,      \* the dict the response object is built from, Optional
    error,         \* the exception that reached the caller, "" if none
    calls,         \* number of get_historical calls started
    resolution,    \* the TimeStep the caller works with in this behaviour
    fetched,       \* what the fetch loop of the running call did so far, in order:
                   \* [month_key, data, io] per _fetch that returned (a record of
                   \* the call, not program state)
    prev,          \* [req, response] of the call the caller is about to repeat,
                   \* Optional
    write_failures,\* number of save_month writes that failed so far
    archive_v,     \* the value the archive API reports for "v" to the running call
    \* ---- HistoricalCache.is_month_recent on a running clock (SpecRecent)
    r_month,       \* the month_key argument, Optional
    r_result,      \* the returned bool, Optional (None until a call returned)
    \* ---- HistoricalCache called directly (SpecStore); files is the directory
    c_query,       \* the last load_month / get_cached_months call, Optional
    c_result,      \* what that call did: [raised, value], Optional
    c_log,         \* per partition file, what the save_month calls since the
                   \* last clear did to it (a record of the calls, not program state)
    c_saves,       \* number of save_month calls made
    \* ---- ForecastCache (SpecForecast)
    fc_now,        \* datetime.now(tz=utc)
    fc_ttl,        \* self._ttl
    fc_cache,      \* self._cache: key -> dumped response
    fc_fetched_at, \* self._fetched_at: key -> datetime
    fc_last_forecast_time, \* self._last_forecast_time: key -> datetime
    fc_result,     \* the get / is_valid call that just returned: [op, key, value],
                   \* Optional
    fc_sets,       \* number of set calls made
    fc_log,        \* per key, the last set call since the last clear: [data, at,
                   \* returned] (a record of the calls, not program state)
    \* ---- OpenMeteoClient.get_forecast (SpecGetForecast)
    g_pc,          \* position of the get_forecast coroutine
    g_req,         \* arguments of the running get_forecast call
    g_response,    \* the dict of the returned response object, Optional
    g_error,       \* the exception that reached the caller, "" if none
    g_cached,      \* the running call returned the cached snapshot
    g_fetched,     \* the running call issued a network fetch
    \* ---- OpenMeteoClient._trim_to_range applied to arbitrary series (SpecTrim)
    t_pc,          \* "input" (arguments chosen) or "trimmed" (the call returned)
    t_data,        \* the `data` argument
    t_start,       \* the `start_date` argument
    t_end,         \* the `end_date` argument
    t_step,        \* the `step` argument
    t_result,      \* the returned dict, Optional (None until the call returned)
    \* ---- two callers of get_historical sharing one partition file (SpecRace)
    w_pc,          \* per caller: where it is in get_historical
    w_data,        \* per caller: the document its fetch returned
    w_pos,         \* per caller: blocks its open file object has written
    w_calls,       \* per caller: number of calls made
    w_loaded,      \* per caller: what its last load_month returned, Optional
    partition_file, \* content of the partition file, Optional (None: no file)
    w_last,        \* the document of the save_month that returned last, Optional
    \* ---- _coord_key applied to two coordinate pairs (SpecKey)
    k_pc,          \* "input" (arguments chosen) or "keyed" (_coord_key returned)
    k_a,           \* the first pair <<lat, lon>>
    k_b,           \* the second pair <<lat, lon>>
    k_keys,        \* the two returned keys, Optional (None until returned)
    \* ---- the HTTP client of one OpenMeteoClient (SpecLifecycle)
    h_pc,          \* "idle", or "closing" while close() awaits aclose()
    h_client,      \* self._client, Optional: the id of the httpx.AsyncClient
    h_open,        \* ids of the httpx.AsyncClient objects created and not closed
    h_created,     \* number of httpx.AsyncClient objects created so far
    h_ops,         \* number of operations made
    h_result,      \* what the last operation did, Optional
    \* ---- the month loop of get_missing_months / get_historical (SpecLoop)
    l_pc,          \* "off", "loop" (in the while loop) or "done"
    l_start,       \* start_date
    l_end,         \* end_date
    l_current,     \* the loop variable `current`
    l_visited,     \* month keys visited so far, in order
    \* ---- get_forecast coroutines sharing one ForecastCache (SpecConcurrent)
    q_pc,          \* per coroutine: "idle", "fetching" or "done"
    q_req,         \* per coroutine: the arguments of its call, Optional
    q_served       \* per coroutine: whether its call was served from the cache

mergeVars == <<m_pc, m_step, m_existing, m_new, m_result, m_calls>>
histVars  == <<today, files, pc, req, missing_months, idx, merged_data, folded,
               response, error, calls, resolution, fetched, prev, write_failures,
                   archive_v>>
recentVars == <<r_month, r_result>>
storeVars == <<c_query, c_result, c_log, c_saves>>
forecastVars == <<fc_now, fc_ttl, fc_cache, fc_fetched_at, fc_last_forecast_time,
                  fc_result, fc_sets, fc_log>>
getVars   == <<g_pc, g_req, g_response, g_error, g_cached, g_fetched>>
trimVars  == <<t_pc, t_data, t_start, t_end, t_step, t_result>>
raceVars  == <<w_pc, w_data, w_pos, w_calls, w_loaded, partition_file, w_last>>
keyVars   == <<k_pc, k_a, k_b, k_keys>>
lifeVars  == <<h_pc, h_client, h_open, h_created, h_ops, h_result>>
loopVars  == <<l_pc, l_start, l_end, l_current, l_visited>>
concVars  == <<q_pc, q_req, q_served>>
extVars   == <<lifeVars, loopVars, concVars>>
unitVars  == <<recentVars, storeVars, forecastVars, getVars, trimVars, raceVars, keyVars, extVars>>
vars      == <<mergeVars, histVars, unitVars>>

----------------------------------------------------------------------------
(* Bounds of the model *)

\* longest `time` list / column of a generated fragment
MaxLen == 2
\* number of get_historical calls in one behaviour
MaxCalls == 2
\* number of cache writes that fail in one behaviour of Spec
MaxWriteFailures == 1
\* number of save_month calls in one behaviour of SpecStore
MaxSaves == 2
\* number of days the clock of SpecRecent runs
MaxDays == 400
\* how many months before the current one is_month_recent is asked about
MaxMonthsBack == 8

----------------------------------------------------------------------------
(* Python built-ins *)

None == <<>>
Some(x) == <<x>>
IsNone(o) == Len(o) = 0
Unwrap(o) == o[1]

EmptyDict == <<>>

\* dict.get(k, default)
Get(d, k, default) == IF k \in DOMAIN d THEN d[k] ELSE default

Range(s) == {s[i] : i \in 1..Len(s)}

NoDuplicates(s) == \A i, j \in 1..Len(s) : i # j => s[i] # s[j]

\* a Python list as a column value, and None as a column value
Col(l) == [null |-> FALSE, list |-> l]
NullCol == [null |-> TRUE, list |-> <<>>]

\* `values or []`
OrEmpty(c) == IF c.null THEN <<>> ELSE c.list

\* str <= str on the field encoding of ISO strings
RECURSIVE StrLE(_, _)
StrLE(a, b) ==
    IF Len(a) = 0 THEN TRUE
    ELSE IF Len(b) = 0 THEN FALSE
    ELSE IF a[1] < b[1] THEN TRUE
    ELSE IF a[1] > b[1] THEN FALSE
    ELSE StrLE(Tail(a), Tail(b))

StrLT(a, b) == StrLE(a, b) /\ a # b

\* types.py 87
DEFAULT_TTL_MINUTES == 60

\* no ForecastCache is in use
ForecastOff ==
    /\ fc_now = 0
    /\ fc_ttl = DEFAULT_TTL_MINUTES
    /\ fc_cache = EmptyDict
    /\ fc_fetched_at = EmptyDict
    /\ fc_last_forecast_time = EmptyDict
    /\ fc_result = None
    /\ fc_sets = 0
    /\ fc_log = EmptyDict

\* no get_forecast call is running
GetIdle ==
    /\ g_pc = "idle"
    /\ g_req = EmptyDict
    /\ g_response = None
    /\ g_error = ""
    /\ g_cached = FALSE
    /\ g_fetched = FALSE

\* no _trim_to_range call is modelled
TrimOff ==
    /\ t_pc = "off"
    /\ t_data = EmptyDict
    /\ t_start = <<2024, 1, 1>>
    /\ t_end = <<2024, 1, 1>>
    /\ t_step = "daily"
    /\ t_result = None

\* the two callers of get_historical
Callers == {1, 2}

\* neither caller has called; the partition file does not exist
RaceOff ==
    /\ w_pc = [c \in Callers |-> "idle"]
    /\ w_data = [c \in Callers |-> <<>>]
    /\ w_pos = [c \in Callers |-> 0]
    /\ w_calls = [c \in Callers |-> 0]
    /\ w_loaded = [c \in Callers |-> None]
    /\ partition_file = None
    /\ w_last = None

\* _coord_key is not exercised
KeyOff ==
    /\ k_pc = "off"
    /\ k_a = <<0, 0>>
    /\ k_b = <<0, 0>>
    /\ k_keys = None

\* no HTTP client has been created
LifeOff ==
    /\ h_pc = "off"
    /\ h_client = None
    /\ h_open = {}
    /\ h_created = 0
    /\ h_ops = 0
    /\ h_result = None

\* the month loop is not exercised
LoopOff ==
    /\ l_pc = "off"
    /\ l_start = <<2024, 1, 1>>
    /\ l_end = <<2024, 1, 1>>
    /\ l_current = <<2024, 1, 1>>
    /\ l_visited = <<>>

\* no concurrent get_forecast coroutine runs
ConcOff ==
    /\ q_pc = [c \in Callers |-> "idle"]
    /\ q_req = [c \in Callers |-> None]
    /\ q_served = [c \in Callers |-> FALSE]

\* the operations of the later sections are not exercised
ExtOff == LifeOff /\ LoopOff /\ ConcOff

\* no call of the unit-level operations has been made
UnitIdle ==
    /\ ExtOff
    /\ ForecastOff
    /\ GetIdle
    /\ TrimOff
    /\ RaceOff
    /\ KeyOff
    /\ r_month = None
    /\ r_result = None
    /\ c_query = None
    /\ c_result = None
    /\ c_log = EmptyDict
    /\ c_saves = 0

\* TimeStep enum values (types.py)
HOURLY == "hourly"
DAILY == "daily"
TimeStep == {HOURLY, DAILY}

----------------------------------------------------------------------------
(* OpenMeteoClient._merge_data, client.py 449-504 *)

\* lines 478: data_key = "hourly" if step == TimeStep.HOURLY else "daily"
data_key(step) == IF step = HOURLY THEN "hourly" ELSE "daily"

\* .get(data_key, {}).get("time", []) (lines 481, 483); the time list is never None
TimeOf(data) == IF "time" \in DOMAIN data THEN data["time"].list ELSE <<>>

\* A plausible slip: `if i < len(new_vals) - 1`, which drops the last position.
RECURSIVE AppendNew_OffByOne(_, _, _, _, _)
AppendNew_OffByOne(merged_vals, new_vals, new_times, existing_times, i) ==
    IF i > Len(new_times) THEN merged_vals
    ELSE AppendNew_OffByOne(
            IF new_times[i] \notin existing_times /\ i < Len(new_vals)
            THEN Append(merged_vals, new_vals[i])
            ELSE merged_vals,
            new_vals, new_times, existing_times, i + 1)

\* A plausible slip: the `if t not in existing_times` test is missing.
RECURSIVE AppendNew_NoDedup(_, _, _, _, _)
AppendNew_NoDedup(merged_vals, new_vals, new_times, existing_times, i) ==
    IF i > Len(new_times) THEN merged_vals
    ELSE AppendNew_NoDedup(
            IF i <= Len(new_vals)
            THEN Append(merged_vals, new_vals[i])
            ELSE merged_vals,
            new_vals, new_times, existing_times, i + 1)

\* lines 496-499: for i, t in enumerate(new_times): if t not in existing_times:
\*                    if i < len(new_vals): merged_vals.append(new_vals[i])
\* (i is 1-based here, so Python's i < len is i <= Len)
RECURSIVE AppendNew(_, _, _, _, _)
AppendNew(merged_vals, new_vals, new_times, existing_times, i) ==
    IF i > Len(new_times) THEN merged_vals
    ELSE AppendNew(
            IF new_times[i] \notin existing_times /\ i <= Len(new_vals)
            THEN Append(merged_vals, new_vals[i])
            ELSE merged_vals,
            new_vals, new_times, existing_times, i + 1)

\* lines 488-501: the loop over new_data.items(), as the dict it leaves behind
MergeColumns(old_data, new_data, existing_times) ==
    [key \in DOMAIN old_data \cup DOMAIN new_data |->
        IF key \notin DOMAIN new_data THEN old_data[key]
        ELSE IF key \notin DOMAIN old_data THEN new_data[key]
        ELSE Col(AppendNew(OrEmpty(old_data[key]), OrEmpty(new_data[key]),
                           TimeOf(new_data), existing_times, 1))]

\* A plausible slip: a variable the accumulator lacks is filtered like a known one.
MergeData_FilterNewVar(existing, new, step) ==
    IF IsNone(existing) THEN new
    ELSE LET e == Unwrap(existing)
             dk == data_key(step)
             old_data == Get(e, dk, EmptyDict)
             new_data == Get(new, dk, EmptyDict)
             existing_times == Range(TimeOf(old_data))
             md == [key \in DOMAIN old_data \cup DOMAIN new_data |->
                     IF key \notin DOMAIN new_data THEN old_data[key]
                     ELSE Col(AppendNew(
                             IF key \in DOMAIN old_data THEN OrEmpty(old_data[key]) ELSE <<>>,
                             OrEmpty(new_data[key]), TimeOf(new_data), existing_times, 1))]
         IN  [k \in DOMAIN e \cup {dk} |-> IF k = dk THEN md ELSE e[k]]

\* A plausible slip: the merged dict is rebuilt from the incoming keys only.
MergeData_DropOldVars(existing, new, step) ==
    IF IsNone(existing) THEN new
    ELSE LET e == Unwrap(existing)
             dk == data_key(step)
             old_data == Get(e, dk, EmptyDict)
             new_data == Get(new, dk, EmptyDict)
             md == MergeColumns(old_data, new_data, Range(TimeOf(old_data)))
         IN  [k \in DOMAIN e \cup {dk} |->
                 IF k = dk THEN [key \in DOMAIN new_data |-> md[key]] ELSE e[k]]

\* A plausible slip: the first fragment is reduced to its data section.
MergeData_FirstLosesMeta(existing, new, step) ==
    IF IsNone(existing)
    THEN [k \in {data_key(step)} |-> Get(new, data_key(step), EmptyDict)]
    ELSE LET e == Unwrap(existing)
             dk == data_key(step)
             old_data == Get(e, dk, EmptyDict)
             new_data == Get(new, dk, EmptyDict)
         IN  [k \in DOMAIN e \cup {dk} |->
                 IF k = dk THEN MergeColumns(old_data, new_data, Range(TimeOf(old_data)))
                 ELSE e[k]]

\* _merge_data(existing, new, step), lines 475-504
MergeData(existing, new, step) ==
    IF IsNone(existing) THEN new
    ELSE LET e == Unwrap(existing)
             dk == data_key(step)
             existing_times == Range(TimeOf(Get(e, dk, EmptyDict)))
             new_data == Get(new, dk, EmptyDict)
             merged_data_ == MergeColumns(Get(e, dk, EmptyDict), new_data, existing_times)
         IN  [k \in DOMAIN e \cup {dk} |-> IF k = dk THEN merged_data_ ELSE e[k]]

----------------------------------------------------------------------------
(* datetime.date and timedelta *)

IsLeap(y) == (y % 4 = 0 /\ y % 100 # 0) \/ y % 400 = 0

DaysInMonth(y, m) ==
    IF m = 2 THEN (IF IsLeap(y) THEN 29 ELSE 28)
    ELSE IF m \in {4, 6, 9, 11} THEN 30 ELSE 31

\* _days_before_year(y) of CPython's datetime: days before January 1st of year y
DaysBeforeYear(y) ==
    (y - 1) * 365 + ((y - 1) \div 4) - ((y - 1) \div 100) + ((y - 1) \div 400)

\* _days_before_month(y, m): days of year y before the first day of month m
DaysBeforeMonth(y, m) ==
    <<0, 31, 59, 90, 120, 151, 181, 212, 243, 273, 304, 334>>[m]
        + (IF m > 2 /\ IsLeap(y) THEN 1 ELSE 0)

\* date.toordinal(): 0001-01-01 is day 1
ToOrdinal(d) == DaysBeforeYear(d[1]) + DaysBeforeMonth(d[1], d[2]) + d[3]

\* date.fromordinal(n), computed
FromOrdinalCalc(n) ==
    LET y == CHOOSE yy \in (n \div 366)..(n \div 365 + 1) :
                 DaysBeforeYear(yy) < n /\ n <= DaysBeforeYear(yy + 1)
        r == n - DaysBeforeYear(y)
        m == CHOOSE mm \in 1..12 :
                 DaysBeforeMonth(y, mm) < r /\ r <= DaysBeforeMonth(y, mm) + DaysInMonth(y, mm)
    IN  <<y, m, r - DaysBeforeMonth(y, m)>>

\* the same for the days of the years the model's clock and windows lie in,
\* computed once
FromOrdinalTable ==
    [n \in (DaysBeforeYear(2023) + 1)..DaysBeforeYear(2026) |-> FromOrdinalCalc(n)]

\* date.fromordinal(n)
FromOrdinal(n) ==
    IF n \in DOMAIN FromOrdinalTable THEN FromOrdinalTable[n] ELSE FromOrdinalCalc(n)

\* d + timedelta(days=n), n may be negative
AddDays(d, n) == FromOrdinal(ToOrdinal(d) + n)

\* d.replace(day=1)
ReplaceDay1(d) == <<d[1], d[2], 1>>

\* date <= date
DateLE(a, b) == ToOrdinal(a) <= ToOrdinal(b)

\* d.isoformat(), "YYYY-MM-DD"
IsoFormat(d) == <<d[1], d[2], d[3]>>

----------------------------------------------------------------------------
(* cache.py: keys and the HistoricalCache *)

\* default of types.py
HISTORY_RECENT_DAYS == 5

Abs(x) == IF x < 0 THEN -x ELSE x

\* magnitudes (in 0.00001 degrees) that are decimal ties of .4f and whose double
\* lies below the tie: f"{0.00015:.4f}" is "0.0001" and f"{55.75015:.4f}" is
\* "55.7501", while 0.00005 and 55.75005 lie above and round up
TiesBelow == {15, 5575015}

\* f"{x:.4f}" with "-" replaced by "m" and "." by "p", for the float with sign
\* bit neg and magnitude mag (a count of 0.00001 degrees): the string is the
\* sign, printed whenever the sign bit is set ("-0.0000" for -0.0 and for
\* -0.00001), and the digits of the magnitude rounded to 4 decimals
Fmt4Float(neg, mag) ==
    [m |-> neg,
     digits |-> IF mag \in TiesBelow THEN mag \div 10 ELSE (mag + 5) \div 10]

\* the same for a coordinate x given as an integer count of 0.00001 degrees
Fmt4(x) == Fmt4Float(x < 0, Abs(x))

\* _coord_key(lat, lon), cache.py 63
CoordKey(lat, lon) == <<Fmt4(lat), Fmt4(lon)>>

\* _month_key(d), cache.py 80: d.strftime("%Y-%m")
MonthKey(d) == <<d[1], d[2]>>

\* datetime.strptime(month_key, "%Y-%m").date()
MonthDate(month_key) == <<month_key[1], month_key[2], 1>>

\* _get_cache_file, cache.py 164-165: "{coord}_{step.value}_{month_key}.json"
CacheFile(lat, lon, step, month_key) ==
    [coord |-> CoordKey(lat, lon), step |-> step, month |-> month_key]

\* json.dump / json.load of a dict of strings, numbers, lists and None
\* (cache.py 222, 191). A text is a sequence of JSON documents: a written file
\* holds one, the empty text holds none. A JSON object is its set of members
\* <<name, value>>; a value is tagged "object", "array", "null" or "string".
JsonColumn(c) ==
    IF c.null THEN [t |-> "null", items |-> <<>>] ELSE [t |-> "array", items |-> c.list]
JsonSection(section) ==
    [t |-> "object", members |-> {<<c, JsonColumn(section[c])>> : c \in DOMAIN section}]
JsonDump(data) ==
    Some([t |-> "object",
          members |-> {<<k, IF k \in {"hourly", "daily"} THEN JsonSection(data[k])
                           ELSE [t |-> "string", s |-> data[k]]>> : k \in DOMAIN data}])

\* the value of the member `name` of a JSON object
Member(obj, name) == (CHOOSE m \in obj.members : m[1] = name)[2]
Names(obj) == {m[1] : m \in obj.members}
PyColumn(v) == IF v.t = "null" THEN NullCol ELSE Col(v.items)
JsonLoad(text) ==
    LET doc == Unwrap(text)
    IN  [k \in Names(doc) |->
            LET v == Member(doc, k)
            IN  IF v.t = "object" THEN [c \in Names(v) |-> PyColumn(Member(v, c))]
                ELSE v.s]
\* a text json.load cannot parse: what a dump that broke off leaves
Unparseable == <<>>

\* A plausible slip: json.load is called outside the try block.
LoadMonthOutcome_NoExcept(fs, lat, lon, step, month_key) ==
    LET cache_file == CacheFile(lat, lon, step, month_key)
    IN  IF cache_file \notin DOMAIN fs THEN [raised |-> FALSE, value |-> None]
        ELSE IF fs[cache_file] = Unparseable THEN [raised |-> TRUE, value |-> None]
        ELSE [raised |-> FALSE, value |-> Some(JsonLoad(fs[cache_file]))]

\* load_month, cache.py 186-194, as its caller sees it: whether an exception
\* left the method, and the value returned (None when the file is not there,
\* line 188, or when open/json.load raised, lines 192-194)
LoadMonthOutcome(fs, lat, lon, step, month_key) ==
    LET cache_file == CacheFile(lat, lon, step, month_key)
    IN  IF cache_file \notin DOMAIN fs THEN [raised |-> FALSE, value |-> None]
        ELSE IF fs[cache_file] = Unparseable THEN [raised |-> FALSE, value |-> None]
        ELSE [raised |-> FALSE, value |-> Some(JsonLoad(fs[cache_file]))]

LoadMonth(fs, lat, lon, step, month_key) ==
    LoadMonthOutcome(fs, lat, lon, step, month_key).value

\* how the write of save_month can go
IoOutcomes == {"ok", "open_failed", "dump_failed"}

\* A plausible slip: an existing partition file is kept and not overwritten.
SaveMonth_KeepsFirst(fs, lat, lon, step, month_key, data, io) ==
    LET cache_file == CacheFile(lat, lon, step, month_key)
    IN  IF io = "open_failed" \/ cache_file \in DOMAIN fs THEN fs
        ELSE [f \in DOMAIN fs \cup {cache_file} |->
                 IF f = cache_file THEN (IF io = "ok" THEN JsonDump(data) ELSE Unparseable)
                 ELSE fs[f]]

\* save_month, cache.py 219-225: the directory after the call; io is how the
\* write went: "ok", "open_failed" (nothing written) or "dump_failed" (the file
\* was opened for writing, so it is truncated, and the dump broke off)
SaveMonth(fs, lat, lon, step, month_key, data, io) ==
    LET cache_file == CacheFile(lat, lon, step, month_key)
        text == IF io = "ok" THEN JsonDump(data) ELSE Unparseable
    IN  IF io = "open_failed" THEN fs
        ELSE [f \in DOMAIN fs \cup {cache_file} |-> IF f = cache_file THEN text ELSE fs[f]]

\* A plausible slip: open and json.dump are called outside the try block.
SaveMonthOutcome_NoExcept(fs, lat, lon, step, month_key, data, io) ==
    [raised |-> io # "ok", fs |-> SaveMonth(fs, lat, lon, step, month_key, data, io)]

\* save_month as its caller sees it: whether an exception left the method
\* (lines 224-225 catch every Exception), and the directory after the call
SaveMonthOutcome(fs, lat, lon, step, month_key, data, io) ==
    [raised |-> FALSE, fs |-> SaveMonth(fs, lat, lon, step, month_key, data, io)]

\* A plausible slip: the glob "{coord}_*.json", which takes both resolutions.
GetCachedMonths_AnyStep(fs, lat, lon, step) ==
    {f.month : f \in {g \in DOMAIN fs : g.coord = CoordKey(lat, lon)}}

\* get_cached_months, cache.py 245-252: the glob "{coord}_{step.value}_*.json"
GetCachedMonths(fs, lat, lon, step) ==
    {f.month : f \in {g \in DOMAIN fs : g.coord = CoordKey(lat, lon) /\ g.step = step}}

\* A plausible slip: the cutoff is taken as HISTORY_RECENT_DAYS days.
IsMonthRecent_Days(month_key, now) ==
    DateLE(AddDays(ReplaceDay1(now), -HISTORY_RECENT_DAYS), MonthDate(month_key))

\* is_month_recent, cache.py 275-278, at the UTC date now
IsMonthRecent(month_key, now) ==
    LET month_date == MonthDate(month_key)
        cutoff == AddDays(ReplaceDay1(now), -(HISTORY_RECENT_DAYS * 31))
    IN  DateLE(cutoff, month_date)

\* the values `current` takes in the loop of cache.py 315-322 / client.py 681-692
RECURSIVE MonthLoop(_, _)
MonthLoop(current, end_month) ==
    IF ~DateLE(current, end_month) THEN <<>>
    ELSE <<current>> \o MonthLoop(ReplaceDay1(AddDays(current, 32)), end_month)

\* sorted(set of strings)
RECURSIVE Sorted(_)
Sorted(S) ==
    IF S = {} THEN <<>>
    ELSE LET least == CHOOSE x \in S : \A y \in S : StrLE(x, y)
         IN  <<least>> \o Sorted(S \ {least})

\* A plausible slip: a cached month is always skipped, recent or not.
GetMissingMonths_IgnoreRecent(fs, lat, lon, step, start_date, end_date, now) ==
    LET cached == GetCachedMonths(fs, lat, lon, step)
        loop == MonthLoop(ReplaceDay1(start_date), ReplaceDay1(end_date))
    IN  Sorted({MonthKey(loop[i]) : i \in {j \in 1..Len(loop) : MonthKey(loop[j]) \notin cached}})

\* A plausible slip: `while current < end_month`, which leaves out the last month.
GetMissingMonths_SkipLast(fs, lat, lon, step, start_date, end_date, now) ==
    LET cached == GetCachedMonths(fs, lat, lon, step)
        loop == MonthLoop(ReplaceDay1(start_date), ReplaceDay1(end_date))
        needed == {MonthKey(loop[i]) :
                      i \in {j \in 1..(Len(loop) - 1) :
                                \/ MonthKey(loop[j]) \notin cached
                                \/ IsMonthRecent(MonthKey(loop[j]), now)}}
    IN  Sorted(needed)

\* A plausible slip: the cached months are not consulted.
GetMissingMonths_IgnoreCache(fs, lat, lon, step, start_date, end_date, now) ==
    LET loop == MonthLoop(ReplaceDay1(start_date), ReplaceDay1(end_date))
    IN  Sorted({MonthKey(loop[i]) : i \in 1..Len(loop)})

\* get_missing_months, cache.py 312-324
GetMissingMonths(fs, lat, lon, step, start_date, end_date, now) ==
    LET cached == GetCachedMonths(fs, lat, lon, step)
        loop == MonthLoop(ReplaceDay1(start_date), ReplaceDay1(end_date))
        needed == {MonthKey(loop[i]) :
                      i \in {j \in 1..Len(loop) :
                                \/ MonthKey(loop[j]) \notin cached
                                \/ IsMonthRecent(MonthKey(loop[j]), now)}}
    IN  Sorted(needed)

----------------------------------------------------------------------------
(* OpenMeteoClient._trim_to_range, client.py 535-565 *)

\* lines 541-546: the inclusive string bounds
StartStr(start_date, step) ==
    IF step = HOURLY THEN IsoFormat(start_date) \o <<0, 0>> ELSE IsoFormat(start_date)
EndStr(end_date, step) ==
    IF step = HOURLY THEN IsoFormat(end_date) \o <<23, 59>> ELSE IsoFormat(end_date)

\* A plausible slip: the upper bound is exclusive.
TrimIndices_EndExclusive(time_list, start_str, end_str) ==
    {i \in 1..Len(time_list) : StrLE(start_str, time_list[i]) /\ StrLT(time_list[i], end_str)}

\* lines 548-552: the indices i (1-based) with start_str <= time_list[i] <= end_str
TrimIndices(time_list, start_str, end_str) ==
    {i \in 1..Len(time_list) : StrLE(start_str, time_list[i]) /\ StrLE(time_list[i], end_str)}

\* line 562: [values[i] for i in indices if i < len(values)]
RECURSIVE Project(_, _, _)
Project(values, indices, i) ==
    IF i > Len(values) THEN <<>>
    ELSE (IF i \in indices THEN <<values[i]>> ELSE <<>>) \o Project(values, indices, i + 1)

\* A plausible slip: a window without data gives an empty series.
TrimToRange_EmptyOnMiss(data, start_date, end_date, step) ==
    LET dk == data_key(step)
        time_list == TimeOf(Get(data, dk, EmptyDict))
        indices == TrimIndices(time_list, StartStr(start_date, step), EndStr(end_date, step))
        section == Get(data, dk, EmptyDict)
        trimmed_data == [key \in DOMAIN section |->
                            IF section[key].null THEN section[key]
                            ELSE Col(Project(section[key].list, indices, 1))]
    IN  IF time_list = <<>> THEN data
        ELSE [k \in DOMAIN data \cup {dk} |-> IF k = dk THEN trimmed_data ELSE data[k]]

\* lines 535-565
TrimToRange(data, start_date, end_date, step) ==
    LET dk == data_key(step)
        time_list == TimeOf(Get(data, dk, EmptyDict))
        indices == TrimIndices(time_list, StartStr(start_date, step), EndStr(end_date, step))
        section == Get(data, dk, EmptyDict)
        trimmed_data == [key \in DOMAIN section |->
                            IF section[key].null THEN section[key]
                            ELSE Col(Project(section[key].list, indices, 1))]
    IN  IF time_list = <<>> THEN data
        ELSE IF indices = {} THEN data
        ELSE [k \in DOMAIN data \cup {dk} |-> IF k = dk THEN trimmed_data ELSE data[k]]

----------------------------------------------------------------------------
(* Fragments handed to the merge engine: every shape of dict the code accepts *)

SeqsUpTo(S, n) == UNION {[1..k -> S] : k \in 0..n}

\* timestamps as the API formats them for each resolution
MergeTimes(step) ==
    IF step = DAILY THEN {<<2024, 1, 1>>, <<2024, 1, 2>>}
    ELSE {<<2024, 1, 1, 0, 0>>, <<2024, 1, 1, 1, 0>>}

\* values of the variable "v" (e.g. temperature_2m) and of "w" (e.g. humidity)
VValues == {5, 6}
WValue == 80

\* a dict from optional entries: an entry that is None is left out
MkData(t, v, w) ==
    [k \in (IF IsNone(t) THEN {} ELSE {"time"})
           \cup (IF IsNone(v) THEN {} ELSE {"v"})
           \cup (IF IsNone(w) THEN {} ELSE {"w"}) |->
        IF k = "time" THEN Unwrap(t) ELSE IF k = "v" THEN Unwrap(v) ELSE Unwrap(w)]

\* the "hourly"/"daily" sections: `time` absent or any list, "v" absent, null or
\* any list (whatever its length), "w" absent or one value per timestamp
DataDicts(step) ==
    LET TimeOpts == {None} \cup {Some(Col(l)) : l \in SeqsUpTo(MergeTimes(step), MaxLen)}
        VOpts == {None, Some(NullCol)} \cup {Some(Col(l)) : l \in SeqsUpTo(VValues, MaxLen)}
        WOpts(t) == {None, Some(Col([i \in 1..Len(IF IsNone(t) THEN <<>> ELSE Unwrap(t).list)
                                        |-> WValue]))}
    IN  UNION {{MkData(t, v, w) : v \in VOpts, w \in WOpts(t)} : t \in TimeOpts}

\* an API response dict: metadata plus the section of its resolution
Envelope(step, data) ==
    [k \in {"timezone", data_key(step)} |-> IF k = "timezone" THEN "auto" ELSE data]

\* the responses of one resolution, and one response without a data section
Fragments(step) ==
    {Envelope(step, d) : d \in DataDicts(step)} \cup {[k \in {"timezone"} |-> "auto"]}

----------------------------------------------------------------------------
(* The archive API as get_historical sees it *)

\* the days of a month for which the modelled API holds a record
SampleDays == {1, 15}

\* the time string of a record, "YYYY-MM-DD" or "YYYY-MM-DDThh:mm"
TimeString(d, step) == IF step = HOURLY THEN IsoFormat(d) \o <<12, 0>> ELSE IsoFormat(d)

\* the dates of [start_date, end_date] that have a record, ascending
RecordDates(start_date, end_date) ==
    LET S == {n \in ToOrdinal(start_date)..ToOrdinal(end_date) : FromOrdinal(n)[3] \in SampleDays}
    IN  [i \in 1..Cardinality(S) |->
            FromOrdinal(CHOOSE n \in S : Cardinality({k \in S : k <= n}) = i)]

\* the variables a call asks for, client.py 632-633 (the default lists of
\* types.py are modelled as the two variables "v" and "w")
DefaultVariables == {"v", "w"}
Variables(r) == IF IsNone(r.variables) THEN DefaultVariables ELSE Unwrap(r.variables)

\* response.json() of the archive API for the params of client.py 660-667: one
\* record per date of the range, a column per requested variable; x is the value
\* the API reports for "v" at the time of the fetch (it corrects recent values)
ArchiveResponse(step, variables, start_date, end_date, x) ==
    LET dates == RecordDates(start_date, end_date)
        section == [k \in {"time"} \cup variables |->
                      IF k = "time" THEN Col([i \in 1..Len(dates) |-> TimeString(dates[i], step)])
                      ELSE IF k = "v" THEN Col([i \in 1..Len(dates) |-> x])
                      ELSE Col([i \in 1..Len(dates) |-> WValue])]
    IN  Envelope(step, section)

----------------------------------------------------------------------------
(* SpecMerge: _merge_data applied to one accumulator, first with no accumulator *)
(* (merged_data = None, client.py 639), then to what the first call returned    *)

MergeInit ==
    /\ m_pc = "input"
    /\ m_step \in TimeStep
    /\ m_existing = None
    /\ m_new \in Fragments(m_step)
    /\ m_result = None
    /\ m_calls = 0

HistIdle ==
    /\ today = <<2024, 7, 15>>
    /\ files = EmptyDict
    /\ pc = "idle"
    /\ req = EmptyDict
    /\ missing_months = <<>>
    /\ idx = 0
    /\ merged_data = None
    /\ folded = <<>>
    /\ response = None
    /\ error = ""
    /\ calls = 0
    /\ resolution = DAILY
    /\ fetched = <<>>
    /\ prev = None
    /\ write_failures = 0
    /\ archive_v = 5

\* merged_data = self._merge_data(merged_data, data, step)
MergeCall ==
    /\ m_pc = "input"
    /\ m_result' = Some(MergeData(m_existing, m_new, m_step))
    /\ m_pc' = "merged"
    /\ m_calls' = m_calls + 1
    /\ UNCHANGED <<m_step, m_existing, m_new>>
    /\ UNCHANGED <<histVars, unitVars>>

\* the next fragment arrives for the accumulator the first call returned
MergeAgain ==
    /\ m_pc = "merged"
    /\ m_calls = 1
    /\ m_existing' = m_result
    /\ m_new' \in Fragments(m_step)
    /\ m_result' = None
    /\ m_pc' = "input"
    /\ UNCHANGED <<m_step, m_calls>>
    /\ UNCHANGED <<histVars, unitVars>>

MergeNext == MergeCall \/ MergeAgain

InitMerge == MergeInit /\ HistIdle /\ UnitIdle

SpecMerge == InitMerge /\ [][MergeNext]_vars

----------------------------------------------------------------------------
(* Spec: OpenMeteoClient.get_historical, client.py 567-726, one caller *)

\* the calls the model makes: one place, windows over 2023-12 .. 2024-02 (with
\* today = 2024-07-15 the months 2023-12 and 2024-01 are old, 2024-02 is recent)
WindowDates == {<<2023, 12, 1>>, <<2024, 1, 15>>, <<2024, 2, 1>>}

ValidCalls(st) ==
    {[latitude |-> 5575000, longitude |-> 3762000, start_date |-> w[1], end_date |-> w[2],
      step |-> st, timezone |-> "auto", variables |-> v, trim_to_range |-> t] :
        w \in {ab \in WindowDates \X WindowDates : DateLE(ab[1], ab[2])},
        v \in {None, Some({"v"})}, t \in BOOLEAN}

InvalidCalls ==
    LET base == [latitude |-> 5575000, longitude |-> 3762000,
                 start_date |-> <<2024, 1, 1>>, end_date |-> <<2024, 1, 15>>,
                 step |-> DAILY, timezone |-> "auto", variables |-> None,
                 trim_to_range |-> TRUE]
    IN  {[base EXCEPT !.latitude = 9100000],
         [base EXCEPT !.longitude = -18100000],
         [base EXCEPT !.start_date = <<2024, 2, 1>>],
         [base EXCEPT !.end_date = <<2024, 8, 1>>]}

\* A plausible slip: the end of the range is not compared with today.
ValidationError_FutureAllowed(r, now) ==
    \/ ~(-9000000 <= r.latitude /\ r.latitude <= 9000000)
    \/ ~(-18000000 <= r.longitude /\ r.longitude <= 18000000)
    \/ ~DateLE(r.start_date, r.end_date)

\* _validate_coordinates and _validate_date_range, client.py 350-357, 381-388;
\* coordinates count 0.00001 degrees; now is date.today(), taken to be the UTC
\* date
ValidationError(r, now) ==
    \/ ~(-9000000 <= r.latitude /\ r.latitude <= 9000000)
    \/ ~(-18000000 <= r.longitude /\ r.longitude <= 18000000)
    \/ ~DateLE(r.start_date, r.end_date)
    \/ ~DateLE(r.end_date, now)

\* client.py 644-656: the range fetched for a missing month
MonthStart(month_key) == MonthDate(month_key)
MonthEnd(month_key, today_utc) ==
    LET month_start == MonthDate(month_key)
        last == IF month_start[2] = 12
                THEN AddDays(<<month_start[1] + 1, 1, 1>>, -1)
                ELSE AddDays(<<month_start[1], month_start[2] + 1, 1>>, -1)
    IN  IF ~DateLE(last, today_utc) THEN today_utc ELSE last

\* the state after OpenMeteoClient() on an empty cache directory
Init ==
    /\ m_pc = "off"
    /\ m_step = DAILY
    /\ m_existing = None
    /\ m_new = EmptyDict
    /\ m_result = None
    /\ m_calls = 0
    /\ today = <<2024, 7, 15>>
    /\ files = EmptyDict
    /\ pc = "idle"
    /\ req = EmptyDict
    /\ missing_months = <<>>
    /\ idx = 0
    /\ merged_data = None
    /\ folded = <<>>
    /\ response = None
    /\ error = ""
    /\ calls = 0
    /\ resolution \in TimeStep
    /\ fetched = <<>>
    /\ prev = None
    /\ write_failures = 0
    /\ archive_v = 5
    /\ UnitIdle

\* the calls the caller can make in the current state: the call it kept the
\* result of, once more, or else any call
CallsAllowed ==
    IF pc # "idle" THEN {}
    ELSE IF ~IsNone(prev) THEN {Unwrap(prev).req}
    ELSE IF calls < MaxCalls THEN ValidCalls(resolution) \cup InvalidCalls
    ELSE {}

\* how the cache write after a fetch can go
WriteOutcomes ==
    IF pc # "fetch" THEN {}
    ELSE IF write_failures < MaxWriteFailures THEN IoOutcomes
    ELSE {"ok"}
\* how the transport and the archive API can fail the pending fetch
FetchErrors == IF pc = "fetch" THEN {"OpenMeteoConnectionError", "OpenMeteoAPIError"} ELSE {}

\* client.py 629-641: the call up to its first await, or up to the end of the
\* fetch loop when nothing is missing
Call(r) ==
    /\ pc = "idle"
    /\ calls' = IF IsNone(prev) THEN calls + 1 ELSE calls
    /\ req' = r
    /\ idx' = 1
    /\ merged_data' = None
    /\ folded' = <<>>
    /\ response' = None
    /\ IF ValidationError(r, today)
       THEN /\ error' = "OpenMeteoValidationError"
            /\ missing_months' = <<>>
            /\ pc' = "done"
       ELSE /\ error' = ""
            /\ missing_months' = GetMissingMonths(files, r.latitude, r.longitude, r.step,
                                                  r.start_date, r.end_date, today)
            /\ pc' = IF missing_months' = <<>> THEN "finish" ELSE "fetch"
    /\ fetched' = <<>>
    /\ archive_v' \in IF pc' = "fetch" THEN VValues ELSE {5}
    /\ UNCHANGED <<today, files, resolution, prev, write_failures>>
    /\ UNCHANGED <<mergeVars, unitVars>>

\* A plausible slip: the accumulator is written to the partition file.
Persisted_Merged(data, merged) ==
    IF IsNone(merged) THEN data ELSE Unwrap(merged)

\* client.py 671-673: what get_historical hands to save_month, given the
\* fragment just fetched and the accumulator
Persisted(data, merged) == data

\* client.py 669-675: _fetch returns for missing_months[idx]; save_month, then
\* _merge_data, then the next iteration up to its await
FetchReturns(io) ==
    /\ pc = "fetch"
    /\ LET month_key == missing_months[idx]
           data == [ArchiveResponse(req.step, Variables(req), MonthStart(month_key),
                                    MonthEnd(month_key, today), archive_v)
                       EXCEPT !["timezone"] = req.timezone]
           saved == SaveMonthOutcome(files, req.latitude, req.longitude, req.step,
                                     month_key, Persisted(data, merged_data), io)
       IN  /\ files' = saved.fs
           /\ fetched' = Append(fetched, [month_key |-> month_key, data |-> data, io |-> io])
           /\ IF saved.raised
              THEN /\ error' = "OSError"
                   /\ pc' = "done"
                   /\ UNCHANGED <<merged_data, folded, idx>>
              ELSE /\ merged_data' = Some(MergeData(merged_data, data, req.step))
                   /\ folded' = Append(folded, month_key)
                   /\ idx' = idx + 1
                   /\ pc' = IF idx' > Len(missing_months) THEN "finish" ELSE "fetch"
                   /\ UNCHANGED error
    /\ write_failures' = IF io = "ok" THEN write_failures ELSE write_failures + 1
    /\ UNCHANGED <<today, req, missing_months, response, calls, resolution, prev, archive_v>>
    /\ UNCHANGED <<mergeVars, unitVars>>

\* A plausible slip: a handler that deletes what the call has cached so far.
FetchRaises_RollsBack(e) ==
    /\ pc = "fetch"
    /\ error' = e
    /\ pc' = "done"
    /\ files' = [f \in {g \in DOMAIN files :
                          \A j \in 1..Len(fetched) :
                              g # CacheFile(req.latitude, req.longitude, req.step,
                                            fetched[j].month_key)} |-> files[f]]
    /\ UNCHANGED <<today, req, missing_months, idx, merged_data, folded,
                   response, calls, resolution, fetched, prev, write_failures,
                   archive_v>>
    /\ UNCHANGED <<mergeVars, unitVars>>

\* client.py 433-445: _fetch raises; the exception leaves get_historical
FetchRaises(e) ==
    /\ pc = "fetch"
    /\ error' = e
    /\ pc' = "done"
    /\ UNCHANGED <<today, files, req, missing_months, idx, merged_data, folded,
                   response, calls, resolution, fetched, prev, write_failures,
                   archive_v>>
    /\ UNCHANGED <<mergeVars, unitVars>>

\* `if cached:` (line 690): a dict that is there and not empty
Truthy(o) == ~IsNone(o) /\ DOMAIN Unwrap(o) # {}

\* A plausible slip: the `month_key not in missing_months` test is missing.
RECURSIVE FoldCached_AlsoFetched(_, _, _, _, _, _)
FoldCached_AlsoFetched(acc, loop, i, r, missing, fs) ==
    IF i > Len(loop) THEN acc
    ELSE LET month_key == MonthKey(loop[i])
             cached_months == GetCachedMonths(fs, r.latitude, r.longitude, r.step)
             cached == LoadMonth(fs, r.latitude, r.longitude, r.step, month_key)
         IN  IF month_key \in cached_months /\ Truthy(cached)
             THEN FoldCached_AlsoFetched(
                      [data |-> Some(MergeData(acc.data, Unwrap(cached), r.step)),
                       months |-> Append(acc.months, month_key)],
                      loop, i + 1, r, missing, fs)
             ELSE FoldCached_AlsoFetched(acc, loop, i + 1, r, missing, fs)

\* client.py 677-692: the loop over the window's months that folds the cached
\* partitions; loop is the values of `current`, acc = [data, months]
RECURSIVE FoldCached(_, _, _, _, _, _)
FoldCached(acc, loop, i, r, missing, fs) ==
    IF i > Len(loop) THEN acc
    ELSE LET month_key == MonthKey(loop[i])
             cached_months == GetCachedMonths(fs, r.latitude, r.longitude, r.step)
             cached == LoadMonth(fs, r.latitude, r.longitude, r.step, month_key)
         IN  IF month_key \notin Range(missing) /\ month_key \in cached_months /\ Truthy(cached)
             THEN FoldCached([data |-> Some(MergeData(acc.data, Unwrap(cached), r.step)),
                              months |-> Append(acc.months, month_key)],
                             loop, i + 1, r, missing, fs)
             ELSE FoldCached(acc, loop, i + 1, r, missing, fs)

\* client.py 694-718: the response built when nothing was merged
EmptyResponse(r) ==
    [k \in {"timezone", data_key(r.step)} |->
        IF k = "timezone" THEN r.timezone ELSE [c \in {"time"} |-> Col(<<>>)]]

\* client.py 677-726: the cached months are folded, the result is trimmed and
\* returned
Finish ==
    /\ pc = "finish"
    /\ LET loop == MonthLoop(ReplaceDay1(req.start_date), ReplaceDay1(req.end_date))
           acc == FoldCached([data |-> merged_data, months |-> folded], loop, 1, req,
                             missing_months, files)
       IN  /\ merged_data' = acc.data
           /\ folded' = acc.months
           /\ response' =
                IF IsNone(acc.data) THEN Some(EmptyResponse(req))
                ELSE IF req.trim_to_range /\ Truthy(acc.data)
                     THEN Some(TrimToRange(Unwrap(acc.data), req.start_date,
                                           req.end_date, req.step))
                     ELSE acc.data
    /\ pc' = "done"
    /\ UNCHANGED <<today, files, req, missing_months, idx, error, calls, resolution,
                   fetched, prev, write_failures,
                   archive_v>>
    /\ UNCHANGED <<mergeVars, unitVars>>

\* the caller has the response or the exception; the locals are gone. With
\* keep the caller holds on to a response to repeat the call and compare.
Return(keep) ==
    /\ pc = "done"
    /\ keep => (error = "" /\ IsNone(prev))
    /\ pc' = "idle"
    /\ req' = EmptyDict
    /\ missing_months' = <<>>
    /\ idx' = 0
    /\ merged_data' = None
    /\ folded' = <<>>
    /\ response' = None
    /\ error' = ""
    /\ fetched' = <<>>
    /\ prev' = IF keep THEN Some([req |-> req, response |-> response]) ELSE None
    /\ archive_v' = 5
    /\ UNCHANGED <<today, files, calls, resolution, write_failures>>
    /\ UNCHANGED <<mergeVars, unitVars>>

Next ==
    \/ \E r \in CallsAllowed : Call(r)
    \/ \E io \in WriteOutcomes : FetchReturns(io)
    \/ \E e \in FetchErrors : FetchRaises(e)
    \/ Finish
    \/ Return(FALSE)

Spec == Init /\ [][Next]_vars

\* SpecRepeat: the same client with a caller that may hold on to a response and
\* make the same call once more
NextRepeat ==
    \/ \E r \in CallsAllowed : Call(r)
    \/ \E io \in WriteOutcomes : FetchReturns(io)
    \/ \E e \in FetchErrors : FetchRaises(e)
    \/ Finish
    \/ \E keep \in BOOLEAN : Return(keep)

SpecRepeat == Init /\ [][NextRepeat]_vars

----------------------------------------------------------------------------
(* The arguments and the result of the _merge_data call the state shows *)

MergeReturned == m_pc = "merged"
MergedOnto == m_pc = "merged" /\ ~IsNone(m_existing)
ExData == Get(Unwrap(m_existing), data_key(m_step), EmptyDict)
NewData == Get(m_new, data_key(m_step), EmptyDict)
ResData == Get(Unwrap(m_result), data_key(m_step), EmptyDict)

\* a fragment as the data model defines it: `time` is there and every column is a
\* list with one value per timestamp
Aligned(data) ==
    /\ "time" \in DOMAIN data
    /\ \A k \in DOMAIN data : ~data[k].null /\ Len(data[k].list) = Len(data["time"].list)

----------------------------------------------------------------------------
(* Claims about _merge_data, checked under SpecMerge *)

\* C2 (as claimed): after _merge_data on aligned, non-empty inputs, every variable
\* column of the accumulator is as long as its `time` column, also when the
\* incoming fragment brings a variable the accumulator lacked or lacks one it has.
C2_ColumnsMatchTime ==
    (/\ MergedOnto
     /\ Aligned(ExData) /\ Aligned(NewData)
     /\ Len(TimeOf(ExData)) > 0 /\ Len(TimeOf(NewData)) > 0)
        => \A k \in DOMAIN ResData : Len(OrEmpty(ResData[k])) = Len(TimeOf(ResData))

\* C3 (as claimed): the accumulator's `time` is non-empty and has no duplicates,
\* the incoming fragment is any fragment: the result's `time` has no duplicates.
C3_NoDuplicatesAnyIncoming ==
    (MergedOnto /\ Len(TimeOf(ExData)) > 0 /\ NoDuplicates(TimeOf(ExData)))
        => NoDuplicates(TimeOf(ResData))

\* C3 (amended): when neither the accumulator's `time` nor the incoming
\* fragment's own `time` holds a value twice, the result's `time` holds no value
\* twice.
C3_NoDuplicates ==
    (MergedOnto /\ NoDuplicates(TimeOf(ExData)) /\ NoDuplicates(TimeOf(NewData)))
        => NoDuplicates(TimeOf(ResData))

\* C3 witness: a duplicate-free fragment that repeats a timestamp of the
\* accumulator and brings a new one has been merged.
C3_Witness ==
    /\ MergedOnto
    /\ NoDuplicates(TimeOf(ExData)) /\ NoDuplicates(TimeOf(NewData))
    /\ Range(TimeOf(NewData)) \cap Range(TimeOf(ExData)) # {}
    /\ Range(TimeOf(NewData)) \ Range(TimeOf(ExData)) # {}

\* the positions of the incoming fragment whose timestamp the accumulator lacks
NewPositions == {i \in 1..Len(TimeOf(NewData)) : TimeOf(NewData)[i] \notin Range(TimeOf(ExData))}

\* column k of the result is column k of the accumulator followed by the values
\* of the incoming column at the positions P, in increasing order of position
AppendedAt(k, P) ==
    LET old == OrEmpty(ExData[k])
        inc == OrEmpty(NewData[k])
        res == OrEmpty(ResData[k])
    IN  /\ ~ResData[k].null
        /\ Len(res) = Len(old) + Cardinality(P)
        /\ \A i \in 1..Len(old) : res[i] = old[i]
        /\ \A i \in P : res[Len(old) + Cardinality({j \in P : j <= i})] = inc[i]

\* C4: when the incoming fragment repeats a timestamp of the accumulator, every
\* column both have (`time` included) gets exactly the values at the positions
\* whose timestamp is new, in the incoming order, and nothing for the repeated
\* positions.
C4_RepeatedNotAppended ==
    (MergedOnto /\ Range(TimeOf(NewData)) \cap Range(TimeOf(ExData)) # {})
        => \A k \in DOMAIN ExData \cap DOMAIN NewData :
              AppendedAt(k, {i \in NewPositions : i <= Len(OrEmpty(NewData[k]))})

\* C4 witness: the example A = {time: [d1], v: [5]}, B = {time: [d1, d2], v: [5, 6]}
\* has been merged and gave {time: [d1, d2], v: [5, 6]}.
C4_Witness ==
    /\ MergedOnto
    /\ m_step = DAILY
    /\ ExData = MkData(Some(Col(<<<<2024, 1, 1>>>>)), Some(Col(<<5>>)), None)
    /\ NewData = MkData(Some(Col(<<<<2024, 1, 1>>, <<2024, 1, 2>>>>)), Some(Col(<<5, 6>>)), None)
    /\ ResData = MkData(Some(Col(<<<<2024, 1, 1>>, <<2024, 1, 2>>>>)), Some(Col(<<5, 6>>)), None)

\* C5: two fragments with disjoint timestamps and the same variables merge to the
\* accumulator's `time` followed by the incoming `time`, every column being the
\* accumulator's column followed by the incoming column.
C5_DisjointConcatenates ==
    (/\ MergedOnto
     /\ Aligned(ExData) /\ Aligned(NewData)
     /\ DOMAIN ExData = DOMAIN NewData
     /\ Range(TimeOf(ExData)) \cap Range(TimeOf(NewData)) = {})
        => /\ DOMAIN ResData = DOMAIN ExData
           /\ Len(TimeOf(ResData)) = Len(TimeOf(ExData)) + Len(TimeOf(NewData))
           /\ \A k \in DOMAIN ResData :
                 ResData[k] = Col(ExData[k].list \o NewData[k].list)

\* C5 witness: two non-empty fragments with a variable column and disjoint
\* timestamps have been merged.
C5_Witness ==
    /\ MergedOnto
    /\ Aligned(ExData) /\ Aligned(NewData)
    /\ DOMAIN ExData = DOMAIN NewData
    /\ "v" \in DOMAIN ExData
    /\ Len(TimeOf(ExData)) > 0 /\ Len(TimeOf(NewData)) > 0
    /\ Range(TimeOf(ExData)) \cap Range(TimeOf(NewData)) = {}

\* C6: with no accumulator (None) _merge_data returns the incoming fragment
\* unchanged, for either resolution.
C6_NoneIsIdentity ==
    (MergeReturned /\ IsNone(m_existing)) => m_result = Some(m_new)

\* C6 witness: a fragment with timestamps and a variable was merged into None.
C6_Witness ==
    /\ MergeReturned /\ IsNone(m_existing)
    /\ Len(TimeOf(NewData)) > 0
    /\ "v" \in DOMAIN NewData

\* C7: a variable of the incoming fragment that the accumulator lacks is in the
\* result with exactly the incoming column, every position of it.
C7_NewVariableAdopted ==
    MergedOnto
        => \A k \in DOMAIN NewData \ DOMAIN ExData :
              k \in DOMAIN ResData /\ ResData[k] = NewData[k]

\* C7 witness: the incoming fragment brought a new variable with a value at a
\* position whose timestamp the accumulator already had.
C7_Witness ==
    /\ MergedOnto
    /\ \E k \in DOMAIN NewData \ DOMAIN ExData :
          \E i \in 1..Len(OrEmpty(NewData[k])) :
              /\ i <= Len(TimeOf(NewData))
              /\ TimeOf(NewData)[i] \in Range(TimeOf(ExData))

\* C8: after each _merge_data call the accumulator's variable names are those it
\* had before together with those of the incoming fragment: none is lost.
C8_VariablesOnlyGrow ==
    /\ MergedOnto => DOMAIN ResData = DOMAIN ExData \cup DOMAIN NewData
    /\ (MergeReturned /\ IsNone(m_existing)) => DOMAIN ResData = DOMAIN NewData

\* C8 witness: the second call on an accumulator, each side having a variable
\* the other lacks.
C8_Witness ==
    /\ MergedOnto
    /\ m_calls = 2
    /\ DOMAIN ExData \ DOMAIN NewData # {}
    /\ DOMAIN NewData \ DOMAIN ExData # {}


----------------------------------------------------------------------------
(* Claims about get_historical and get_missing_months, checked under Spec *)

\* get_missing_months has just returned to get_historical: the plan is in
\* missing_months and the cache directory is as the planner saw it
Planned == pc \in {"fetch", "finish"} /\ idx = 1

\* the merge pass of a call is over (client.py 692) and no exception was raised
MergePassDone == pc = "done" /\ error = "" /\ ~IsNone(merged_data)

\* the accumulator's `time` list
AccTime == TimeOf(Get(Unwrap(merged_data), data_key(req.step), EmptyDict))

StrictlyIncreasing(s) == \A i \in 1..(Len(s) - 1) : StrLT(s[i], s[i + 1])

\* the calendar months that overlap [start_date, end_date], as month keys
WindowMonths(r) ==
    {k \in (r.start_date[1]..r.end_date[1]) \X (1..12) :
        /\ StrLE(MonthKey(r.start_date), k)
        /\ StrLE(k, MonthKey(r.end_date))}

\* the partition of month k is in the cache directory for the call's key
IsCached(k) == CacheFile(req.latitude, req.longitude, req.step, k) \in DOMAIN files

\* C1 (as claimed): at the end of the merge pass of get_historical (fetched months
\* folded first, then the cached months of the window) the accumulator's `time`
\* is strictly increasing, whatever the split into fetched and cached months.
C1_TimeStrictlyIncreasing == MergePassDone => StrictlyIncreasing(AccTime)

\* C9: for every month of the window, right after get_missing_months: a recent
\* month is in the result, cached or not; a month that is not recent and cached
\* is not in the result; a month that is not cached is in the result.
C9_MissingMonthsMembership ==
    Planned =>
        \A k \in WindowMonths(req) :
            /\ IsMonthRecent(k, today) => k \in Range(missing_months)
            /\ (~IsMonthRecent(k, today) /\ IsCached(k)) => k \notin Range(missing_months)
            /\ ~IsCached(k) => k \in Range(missing_months)

\* C9 witness: a plan over 2023-12 .. 2024-02 made when 2024-01 (old) and 2024-02
\* (recent) are cached and 2023-12 is not: 2023-12 and 2024-02 are planned.
C9_Witness ==
    /\ Planned
    /\ WindowMonths(req) = {<<2023, 12>>, <<2024, 1>>, <<2024, 2>>}
    /\ ~IsCached(<<2023, 12>>) /\ IsCached(<<2024, 1>>) /\ IsCached(<<2024, 2>>)
    /\ IsMonthRecent(<<2024, 2>>, today) /\ ~IsMonthRecent(<<2024, 1>>, today)
    /\ missing_months = <<<<2023, 12>>, <<2024, 2>>>>

\* C10 (as claimed): get_missing_months returns one key per calendar month of the
\* window (one key for a single-month window, N keys for N months), ascending.
C10_OneKeyPerWindowMonth ==
    Planned =>
        /\ Len(missing_months) = Cardinality(WindowMonths(req))
        /\ StrictlyIncreasing(missing_months)

\* C10 (amended): the result is ascending and holds exactly the window's months
\* that are not cached or are recent: at most N keys for N months, and N keys
\* (one for a single-month window) when no month of the window is both cached
\* and not recent.
C10_KeysOfNeededMonths ==
    Planned =>
        /\ StrictlyIncreasing(missing_months)
        /\ Range(missing_months) =
              {k \in WindowMonths(req) : ~IsCached(k) \/ IsMonthRecent(k, today)}
        /\ Len(missing_months) <= Cardinality(WindowMonths(req))
        /\ (\A k \in WindowMonths(req) : ~IsCached(k) \/ IsMonthRecent(k, today))
              => Len(missing_months) = Cardinality(WindowMonths(req))

\* C10 witness: a three-month window planned on a cache that holds only the
\* recent month 2024-02: three keys, ascending.
C10_Witness ==
    /\ Planned
    /\ Cardinality(WindowMonths(req)) = 3
    /\ IsCached(<<2024, 2>>)
    /\ missing_months = <<<<2023, 12>>, <<2024, 1>>, <<2024, 2>>>>


----------------------------------------------------------------------------
(* SpecRecent: is_month_recent (cache.py 254-278) asked day after day *)

\* no _merge_data call is modelled
MergeOff ==
    /\ m_pc = "off"
    /\ m_step = DAILY
    /\ m_existing = None
    /\ m_new = EmptyDict
    /\ m_result = None
    /\ m_calls = 0

\* no get_historical call is running, the cache directory is empty
ClientIdle ==
    /\ files = EmptyDict
    /\ pc = "idle"
    /\ req = EmptyDict
    /\ missing_months = <<>>
    /\ idx = 0
    /\ merged_data = None
    /\ folded = <<>>
    /\ response = None
    /\ error = ""
    /\ calls = 0
    /\ resolution = DAILY
    /\ fetched = <<>>
    /\ prev = None
    /\ write_failures = 0
    /\ archive_v = 5

clientVars == <<files, pc, req, missing_months, idx, merged_data, folded, response,
                error, calls, resolution, fetched, prev, write_failures,
                   archive_v>>

\* the first UTC date of the run; the run crosses 2024-02-29
ClockStart == <<2023, 12, 1>>

\* a month key as a count of months, and back
MonthIndex(month_key) == month_key[1] * 12 + month_key[2] - 1
MonthOfIndex(n) == <<n \div 12, (n % 12) + 1>>

\* the month key of the n-th calendar month before the month of d
MonthsBefore(d, n) == MonthOfIndex(MonthIndex(MonthKey(d)) - n)

\* the months is_month_recent is asked about on the date d
AskedMonths(d) == {MonthsBefore(d, n) : n \in -1..MaxMonthsBack}

InitRecent ==
    /\ today = ClockStart
    /\ ClientIdle
    /\ MergeOff
    /\ UnitIdle

\* the UTC date changes
Midnight ==
    /\ ToOrdinal(today) - ToOrdinal(ClockStart) < MaxDays
    /\ today' = AddDays(today, 1)
    /\ r_month' = None
    /\ r_result' = None
    /\ UNCHANGED <<clientVars, mergeVars, storeVars, forecastVars, getVars, trimVars, raceVars, keyVars, extVars>>

\* cache.is_month_recent(month_key) returns
IsMonthRecentCall(month_key) ==
    /\ r_month' = Some(month_key)
    /\ r_result' = Some(IsMonthRecent(month_key, today))
    /\ UNCHANGED <<today, clientVars, mergeVars, storeVars, forecastVars, getVars, trimVars, raceVars, keyVars, extVars>>

NextRecent ==
    \/ Midnight
    \/ \E month_key \in AskedMonths(today) : IsMonthRecentCall(month_key)

SpecRecent == InitRecent /\ [][NextRecent]_vars

\* C11: on every UTC date is_month_recent is true for the current month and for
\* each of the 5 calendar months before it and false for every earlier month; the
\* cutoff lies after the first day of the 6th prior month and on or before the
\* first day of the 5th prior month.
C11_RecentIsFiveMonthsBack ==
    /\ ~IsNone(r_result) =>
          LET back == MonthIndex(MonthKey(today)) - MonthIndex(Unwrap(r_month))
          IN  back >= 0 => (Unwrap(r_result) <=> back <= 5)
    /\ LET cutoff == AddDays(ReplaceDay1(today), -(HISTORY_RECENT_DAYS * 31))
       IN  /\ ToOrdinal(MonthDate(MonthsBefore(today, 6))) < ToOrdinal(cutoff)
           /\ ToOrdinal(cutoff) <= ToOrdinal(MonthDate(MonthsBefore(today, 5)))

\* C11 witness: on 2024-07-31 the month 2024-02 (5 months back; the 5 months
\* between hold only 150 days) is recent.
C11_Witness ==
    /\ today = <<2024, 7, 31>>
    /\ r_month = Some(<<2024, 2>>)
    /\ r_result = Some(TRUE)


----------------------------------------------------------------------------
(* SpecStore: save_month, load_month, get_cached_months of one HistoricalCache *)
(* and clear_historical_cache of its client, called in any order              *)

\* the arguments of the calls: two latitudes with the same 4-decimal key, one
\* with another key; both resolutions; two months; two fragments
StoreLats == {5575000, 5575004, 5575010}
StoreLon == 3762000
StoreMonths == {<<2024, 1>>, <<2024, 2>>}
StoreData ==
    {Envelope(DAILY, MkData(Some(Col(<<<<2024, 1, 1>>>>)), Some(Col(<<5>>)), None)),
     Envelope(DAILY, MkData(Some(Col(<<<<2024, 1, 1>>, <<2024, 1, 2>>>>)), Some(NullCol), None))}

InitStore ==
    /\ today = <<2024, 7, 15>>
    /\ ClientIdle
    /\ MergeOff
    /\ UnitIdle

\* what one more save_month call adds to the record of a partition file
Logged(log, cache_file, data, io) ==
    LET old == IF cache_file \in DOMAIN log THEN log[cache_file]
               ELSE [data |-> None, ok |-> FALSE, opened |-> FALSE]
        new == [data |-> IF io = "ok" THEN Some(data) ELSE None,
                ok |-> old.ok \/ io = "ok",
                opened |-> old.opened \/ io # "open_failed"]
    IN  [f \in DOMAIN log \cup {cache_file} |-> IF f = cache_file THEN new ELSE log[f]]

\* cache.save_month(lat, lon, step, month_key, data); io is how the write goes
SaveMonthCall(lat, lon, step, month_key, data, io) ==
    /\ c_saves < MaxSaves
    /\ c_saves' = c_saves + 1
    /\ files' = SaveMonth(files, lat, lon, step, month_key, data, io)
    /\ c_log' = Logged(c_log, CacheFile(lat, lon, step, month_key), data, io)
    /\ c_query' = None
    /\ c_result' = None
    /\ UNCHANGED <<today, pc, req, missing_months, idx, merged_data, folded, response,
                   error, calls, resolution, fetched, prev, write_failures,
                   archive_v>>
    /\ UNCHANGED <<mergeVars, recentVars, forecastVars, getVars, trimVars, raceVars, keyVars, extVars>>

\* cache.load_month(lat, lon, step, month_key)
LoadMonthCall(lat, lon, step, month_key) ==
    /\ c_query' = Some([op |-> "load_month", lat |-> lat, lon |-> lon, step |-> step,
                        month_key |-> month_key])
    /\ c_result' = Some(LoadMonthOutcome(files, lat, lon, step, month_key))
    /\ UNCHANGED <<today, clientVars, c_log, c_saves>>
    /\ UNCHANGED <<mergeVars, recentVars, forecastVars, getVars, trimVars, raceVars, keyVars, extVars>>

\* cache.get_cached_months(lat, lon, step)
GetCachedMonthsCall(lat, lon, step) ==
    /\ c_query' = Some([op |-> "get_cached_months", lat |-> lat, lon |-> lon,
                        step |-> step, month_key |-> <<>>])
    /\ c_result' = Some([raised |-> FALSE, value |-> GetCachedMonths(files, lat, lon, step)])
    /\ UNCHANGED <<today, clientVars, c_log, c_saves>>
    /\ UNCHANGED <<mergeVars, recentVars, forecastVars, getVars, trimVars, raceVars, keyVars, extVars>>

\* client.clear_historical_cache(), client.py 899-902: rmtree, then mkdir
ClearHistoricalCache ==
    /\ files' = EmptyDict
    /\ c_log' = EmptyDict
    /\ c_query' = None
    /\ c_result' = None
    /\ UNCHANGED <<today, pc, req, missing_months, idx, merged_data, folded, response,
                   error, calls, resolution, fetched, prev, write_failures,
                   archive_v, c_saves>>
    /\ UNCHANGED <<mergeVars, recentVars, forecastVars, getVars, trimVars, raceVars, keyVars, extVars>>

NextStore ==
    \/ \E lat \in StoreLats, step \in TimeStep, month_key \in StoreMonths,
          data \in StoreData, io \in IoOutcomes :
            SaveMonthCall(lat, StoreLon, step, month_key, data, io)
    \/ \E lat \in StoreLats, step \in TimeStep, month_key \in StoreMonths :
            LoadMonthCall(lat, StoreLon, step, month_key)
    \/ \E lat \in StoreLats, step \in TimeStep : GetCachedMonthsCall(lat, StoreLon, step)
    \/ ClearHistoricalCache

SpecStore == InitStore /\ [][NextStore]_vars


\* the call the state shows; Asked is the partition file of its arguments
Loaded == ~IsNone(c_query) /\ Unwrap(c_query).op = "load_month"
Listed == ~IsNone(c_query) /\ Unwrap(c_query).op = "get_cached_months"
Query == Unwrap(c_query)
Asked == CacheFile(Query.lat, Query.lon, Query.step, Query.month_key)

\* C15: load_month returns the fragment of the latest save_month of the
\* partition when that save succeeded (a later save overwrites), and None for a
\* partition no save_month was called for since the last clear.
C15_LoadReturnsLastSaved ==
    Loaded =>
        /\ (Asked \in DOMAIN c_log /\ ~IsNone(c_log[Asked].data))
              => Unwrap(c_result).value = c_log[Asked].data
        /\ Asked \notin DOMAIN c_log => Unwrap(c_result).value = None

\* C15 witness: two saves of one partition succeeded, through two latitudes
\* with the same location key; the load returns the second fragment.
C15_Witness ==
    /\ Loaded
    /\ c_saves = 2
    /\ DOMAIN c_log = {Asked}
    /\ \E d \in StoreData :
          /\ c_log[Asked].data = Some(d)
          /\ Unwrap(c_result).value = Some(d)
          /\ "v" \in DOMAIN d["daily"] /\ d["daily"]["v"].null

\* the months of the asked location key and resolution in a set of partition files
MonthsOf(partitions) ==
    {f.month : f \in {g \in partitions :
                         g.coord = CoordKey(Query.lat, Query.lon) /\ g.step = Query.step}}

C17_LoadNeverRaises ==
    [][(~IsNone(c_query') /\ c_query' # c_query /\ Unwrap(c_query').op = "load_month")
          => /\ ~Unwrap(c_result').raised
             /\ LET q == Unwrap(c_query')
                    f == CacheFile(q.lat, q.lon, q.step, q.month_key)
                IN  (f \notin DOMAIN files \/ files[f] = Unparseable)
                        => Unwrap(c_result').value = None
             /\ files' = files]_vars

\* C17 witness: a load of a partition whose file is there and unparseable
\* returned None.
C17_Witness ==
    /\ Loaded
    /\ Asked \in DOMAIN files
    /\ files[Asked] = Unparseable
    /\ Unwrap(c_result) = [raised |-> FALSE, value |-> None]


----------------------------------------------------------------------------
(* Claims about get_historical and its cache, checked under Spec / SpecRepeat *)

\* the partition of month_key for the arguments of the running call, as load_month
\* returns it
Partition(month_key) == LoadMonth(files, req.latitude, req.longitude, req.step, month_key)

\* the `time` list of a response dict of the running call
SeriesTime(data) == TimeOf(Get(data, data_key(req.step), EmptyDict))

\* the exception came out of _fetch
FetchFailed == pc = "done" /\ error \in {"OpenMeteoConnectionError", "OpenMeteoAPIError"}

\* C12 (as claimed): a call is repeated for a window without recent months; no
\* cache write has failed. The second call issues no fetch and returns the same
\* series as the first.
C12_RepeatedCallSameSeries ==
    (/\ pc = "done"
     /\ ~IsNone(prev)
     /\ write_failures = 0
     /\ \A k \in WindowMonths(req) : ~IsMonthRecent(k, today))
        => /\ error = ""
           /\ missing_months = <<>>
           /\ response = Unwrap(prev).response

\* C13: the fetch of a month failed: the partition of every month fetched before
\* it in this call (the months before it in the plan, one by one) is in the
\* cache, with the fragment that was fetched, when the exception has reached the
\* caller. A month whose cache write failed has no partition to roll back.
C13_PartialProgressKept ==
    FetchFailed =>
        /\ Len(fetched) = idx - 1
        /\ \A j \in 1..Len(fetched) :
              /\ fetched[j].month_key = missing_months[j]
              /\ fetched[j].io = "ok" => Partition(fetched[j].month_key) = Some(fetched[j].data)

\* C13 witness: the fetch of the third of three planned months failed, the two
\* months before it are in the cache.
C13_Witness ==
    /\ FetchFailed
    /\ Len(missing_months) = 3
    /\ idx = 3
    /\ \A j \in 1..2 : fetched[j].io = "ok" /\ ~IsNone(Partition(missing_months[j]))

\* C14: at every point of a call, through the merge and the trim, the partition
\* file written for a fetched month holds the fragment the fetch returned, not
\* the accumulator and not the trimmed series.
C14_PartitionIsRawFragment ==
    \A j \in 1..Len(fetched) :
        fetched[j].io = "ok" => Partition(fetched[j].month_key) = Some(fetched[j].data)

\* C14 witness: a call fetched two months, merged them and trimmed the result
\* to a shorter series; both partitions hold what was fetched.
C14_Witness ==
    /\ pc = "done" /\ error = ""
    /\ req.trim_to_range
    /\ Len(fetched) = 2
    /\ \A j \in 1..2 : Partition(fetched[j].month_key) = Some(fetched[j].data)
    /\ Len(SeriesTime(Unwrap(response))) < Len(AccTime)
    /\ Len(SeriesTime(fetched[2].data)) < Len(AccTime)

\* C18 (as claimed): a call returned without an exception; a month of its window
\* whose partition file is there and cannot be parsed was fetched again by the
\* call and its data is in the series.
C18_UnparseableIsRefetched ==
    (pc = "done" /\ error = "") =>
        \A k \in WindowMonths(req) :
            (IsCached(k) /\ IsNone(Partition(k)))
                => k \in Range(missing_months) /\ k \in Range(folded)

\* C19: no exception of a cache write reaches the caller; after a write failed
\* the fetch loop goes on, and when the call gets through its fetches every
\* planned month was fetched and the timestamps of every fetched fragment, the
\* one whose write failed included, are in the accumulator.
C19_WriteFailureTolerated ==
    /\ error # "OSError"
    /\ (\E j \in 1..Len(fetched) : fetched[j].io # "ok") =>
          /\ pc = "fetch" => idx = Len(fetched) + 1
          /\ (pc \in {"finish", "done"} /\ error = "") =>
                /\ [j \in 1..Len(fetched) |-> fetched[j].month_key] = missing_months
                /\ Range(missing_months) \subseteq Range(folded)
                /\ \A j \in 1..Len(fetched) :
                      Range(SeriesTime(fetched[j].data)) \subseteq Range(AccTime)

\* C19 witness: the write of the first of two fetched months failed and the call
\* returned with both months in the accumulator.
C19_Witness ==
    /\ pc = "done" /\ error = ""
    /\ Len(fetched) = 2
    /\ fetched[1].io # "ok"
    /\ IsNone(Partition(fetched[1].month_key))
    /\ Range(SeriesTime(fetched[1].data)) \subseteq Range(AccTime)
    /\ Len(AccTime) = 4


----------------------------------------------------------------------------
(* SpecForecast: ForecastCache (cache.py 327-495) on a running clock *)

\* types.py 94
CACHE_SAFETY_MARGIN_HOURS == 3

MaxSets == 3

MinutesPerDay == 24 * 60

\* datetime.fromisoformat("YYYY-MM-DDThh:mm") taken as UTC (lines 380-383), and
\* datetime.combine(date.fromisoformat("YYYY-MM-DD"), time.min, utc) (384-388,
\* 394-398)
ParseTime(last) ==
    IF Len(last) = 5
    THEN ToOrdinal(<<last[1], last[2], last[3]>>) * MinutesPerDay + last[4] * 60 + last[5]
    ELSE ToOrdinal(last) * MinutesPerDay

\* A plausible slip: a series without timestamps is taken to end a day ahead.
GetLastTime_DayAhead(data, now) ==
    IF "hourly" \in DOMAIN data /\ TimeOf(data["hourly"]) # <<>>
    THEN LET time == TimeOf(data["hourly"]) IN ParseTime(time[Len(time)])
    ELSE IF "daily" \in DOMAIN data /\ TimeOf(data["daily"]) # <<>>
    THEN LET time == TimeOf(data["daily"]) IN ParseTime(time[Len(time)])
    ELSE now + MinutesPerDay

\* ForecastCache._get_last_time, cache.py 360-399; now is datetime.now() of
\* line 399
GetLastTime(data, now) ==
    IF "hourly" \in DOMAIN data /\ TimeOf(data["hourly"]) # <<>>
    THEN LET time == TimeOf(data["hourly"]) IN ParseTime(time[Len(time)])
    ELSE IF "daily" \in DOMAIN data /\ TimeOf(data["daily"]) # <<>>
    THEN LET time == TimeOf(data["daily"]) IN ParseTime(time[Len(time)])
    ELSE now

\* A plausible slip: only the TTL is checked.
IsValid_TtlOnly(cache, fetched_at, last_forecast_time, ttl, key, now) ==
    IF key \notin DOMAIN cache THEN FALSE
    ELSE IF key \notin DOMAIN fetched_at \/ key \notin DOMAIN last_forecast_time THEN FALSE
    ELSE ~(now - fetched_at[key] > ttl)

\* A plausible slip: the freshness comparison is the wrong way round.
IsValid_HorizonReversed(cache, fetched_at, last_forecast_time, ttl, key, now) ==
    IF key \notin DOMAIN cache THEN FALSE
    ELSE IF key \notin DOMAIN fetched_at \/ key \notin DOMAIN last_forecast_time THEN FALSE
    ELSE IF now - fetched_at[key] > ttl THEN FALSE
    ELSE IF now < last_forecast_time[key] - CACHE_SAFETY_MARGIN_HOURS * 60 THEN FALSE
    ELSE TRUE

\* ForecastCache.is_valid, cache.py 469-483
IsValid(cache, fetched_at, last_forecast_time, ttl, key, now) ==
    IF key \notin DOMAIN cache THEN FALSE
    ELSE IF key \notin DOMAIN fetched_at \/ key \notin DOMAIN last_forecast_time THEN FALSE
    ELSE IF now - fetched_at[key] > ttl THEN FALSE
    ELSE IF now > last_forecast_time[key] - CACHE_SAFETY_MARGIN_HOURS * 60 THEN FALSE
    ELSE TRUE

\* d[k] = v
DictSet(d, k, v) == [x \in DOMAIN d \cup {k} |-> IF x = k THEN v ELSE d[x]]

\* the instant the cache is constructed, and the instants at which it is used
ForecastStart == ParseTime(<<2024, 1, 1, 0, 0>>)
ForecastClock == {ForecastStart + m : m \in {0, 1, 30, 31, 60, 61, 120}}

\* ttl_minutes of the constructor (line 346)
TtlMinutes == {30, DEFAULT_TTL_MINUTES}

\* (lat, lon, step) keys
ForecastKeys == {<<5575000, StoreLon, HOURLY>>, <<5575000, StoreLon, DAILY>>}

\* responses handed to set: hourly series ending inside the safety margin, at
\* its edge, and far ahead; an hourly series of bare dates; an empty series;
\* a daily series
ForecastData ==
    {Envelope(HOURLY, MkData(Some(Col(l)), None, None)) :
        l \in {<<<<2024, 1, 1, 0, 0>>, <<2024, 1, 1, 3, 0>>>>,
               <<<<2024, 1, 1, 0, 0>>, <<2024, 1, 1, 3, 1>>>>,
               <<<<2024, 1, 1, 0, 0>>, <<2024, 1, 3, 0, 0>>>>,
               <<<<2024, 1, 2>>>>,
               <<>>}}
    \cup {Envelope(DAILY, MkData(Some(Col(l)), None, None)) :
        l \in {<<<<2024, 1, 1>>, <<2024, 1, 2>>>>}}

InitForecast ==
    /\ today = <<2024, 1, 1>>
    /\ ClientIdle
    /\ MergeOff
    /\ r_month = None /\ r_result = None
    /\ c_query = None /\ c_result = None /\ c_log = EmptyDict /\ c_saves = 0
    /\ RaceOff
    /\ KeyOff
    /\ ExtOff
    /\ GetIdle
    /\ TrimOff
    /\ fc_now = ForecastStart
    /\ fc_ttl \in TtlMinutes
    /\ fc_cache = EmptyDict
    /\ fc_fetched_at = EmptyDict
    /\ fc_last_forecast_time = EmptyDict
    /\ fc_result = None
    /\ fc_sets = 0
    /\ fc_log = EmptyDict

\* time passes
Tick(t) ==
    /\ t > fc_now
    /\ fc_now' = t
    /\ fc_result' = None
    /\ UNCHANGED <<fc_ttl, fc_cache, fc_fetched_at, fc_last_forecast_time, fc_sets, fc_log>>
    /\ UNCHANGED <<today, clientVars, mergeVars, recentVars, storeVars, getVars, trimVars, raceVars, keyVars, extVars>>

\* A plausible slip: the new snapshot is merged into the entry already there.
Dumped_Merged(cache, key, data) ==
    IF key \in DOMAIN cache
    THEN [k \in DOMAIN cache[key] \cup DOMAIN data |->
              IF k \in DOMAIN cache[key] THEN cache[key][k] ELSE data[k]]
    ELSE data

\* data.model_dump() as stored by line 440: the dict of the response object alone
Dumped(cache, key, data) == data

\* the series of a response has no timestamp: `time` missing or empty
NoTimes(data) ==
    \A section \in {"hourly", "daily"} :
        section \in DOMAIN data => TimeOf(data[section]) = <<>>

\* cache.set(lat, lon, step, data), cache.py 438-442. The clock is read at line
\* 439 (fc_now) and, for a series without timestamps, once more at line 399 (t).
SetEntry(key, data, t) ==
    /\ IF NoTimes(data) THEN t >= fc_now ELSE t = fc_now
    /\ fc_sets' = fc_sets + 1
    /\ fc_cache' = DictSet(fc_cache, key, Dumped(fc_cache, key, data))
    /\ fc_fetched_at' = DictSet(fc_fetched_at, key, fc_now)
    /\ fc_last_forecast_time' = DictSet(fc_last_forecast_time, key, GetLastTime(data, t))
    /\ fc_now' = t
    /\ fc_result' = None
    /\ fc_log' = DictSet(fc_log, key, [data |-> data, at |-> fc_now, returned |-> t])
    /\ UNCHANGED fc_ttl

\* cache.set(lat, lon, step, data) called directly
ForecastSet(key, data, t) ==
    /\ fc_sets < MaxSets
    /\ SetEntry(key, data, t)
    /\ UNCHANGED <<today, clientVars, mergeVars, recentVars, storeVars, getVars, trimVars, raceVars, keyVars, extVars>>

\* ForecastCache.get, cache.py 417-418
ForecastGet(cache, key) == IF key \in DOMAIN cache THEN Some(cache[key]) ELSE None

\* cache.get(lat, lon, step) returns
ForecastGetCall(key) ==
    /\ fc_result' = Some([op |-> "get", key |-> key, value |-> ForecastGet(fc_cache, key)])
    /\ UNCHANGED <<fc_now, fc_ttl, fc_cache, fc_fetched_at, fc_last_forecast_time, fc_sets,
                   fc_log>>
    /\ UNCHANGED <<today, clientVars, mergeVars, recentVars, storeVars, getVars, trimVars, raceVars, keyVars, extVars>>

\* cache.is_valid(lat, lon, step) returns
IsValidCall(key) ==
    /\ fc_result' = Some([op |-> "is_valid", key |-> key,
                          value |-> IsValid(fc_cache, fc_fetched_at, fc_last_forecast_time,
                                            fc_ttl, key, fc_now)])
    /\ UNCHANGED <<fc_now, fc_ttl, fc_cache, fc_fetched_at, fc_last_forecast_time, fc_sets,
                   fc_log>>
    /\ UNCHANGED <<today, clientVars, mergeVars, recentVars, storeVars, getVars, trimVars, raceVars, keyVars, extVars>>

\* A plausible slip: clear drops the snapshots and keeps the timestamps.
ForecastClear_CacheOnly ==
    /\ fc_cache # EmptyDict
    /\ fc_cache' = [k \in {key \in DOMAIN fc_cache : key[3] = DAILY} |-> fc_cache[k]]
    /\ fc_result' = None
    /\ fc_log' = EmptyDict
    /\ UNCHANGED <<fc_now, fc_ttl, fc_sets, fc_fetched_at, fc_last_forecast_time>>
    /\ UNCHANGED <<today, clientVars, mergeVars, recentVars, storeVars, getVars, trimVars, raceVars, keyVars, extVars>>

\* cache.clear(), cache.py 493-495; client.clear_forecast_cache() (client.py 885)
\* is this call and nothing else
ForecastClear ==
    /\ fc_cache # EmptyDict
    /\ fc_cache' = EmptyDict
    /\ fc_fetched_at' = EmptyDict
    /\ fc_last_forecast_time' = EmptyDict
    /\ fc_result' = None
    /\ fc_log' = EmptyDict
    /\ UNCHANGED <<fc_now, fc_ttl, fc_sets>>
    /\ UNCHANGED <<today, clientVars, mergeVars, recentVars, storeVars, getVars, trimVars, raceVars, keyVars, extVars>>

NextForecast ==
    \/ \E t \in ForecastClock : Tick(t)
    \/ \E key \in ForecastKeys, data \in ForecastData,
          t \in {c \in ForecastClock : c >= fc_now} : ForecastSet(key, data, t)
    \/ \E key \in ForecastKeys : ForecastGetCall(key)
    \/ \E key \in ForecastKeys : IsValidCall(key)
    \/ ForecastClear

SpecForecast == InitForecast /\ [][NextForecast]_vars

\* the entry of the key the returned is_valid call asked about
Answered == ~IsNone(fc_result) /\ Unwrap(fc_result).op = "is_valid"
AskedKey == Unwrap(fc_result).key
HasEntry == AskedKey \in DOMAIN fc_cache
Age == fc_now - fc_fetched_at[AskedKey]
Horizon == fc_last_forecast_time[AskedKey] - fc_now

\* C20: is_valid(key) is true if and only if an entry exists for the key, now -
\* fetchedAt <= TTL and now <= lastObservedAt - 3 hours; so it is false once the
\* TTL has elapsed however far ahead the last timestamp is, and false once now
\* is within 3 hours of the last timestamp however young the entry is.
C20_ValidIffFreshAndAheadOfTail ==
    Answered =>
        /\ Unwrap(fc_result).value
              <=> (HasEntry /\ Age <= fc_ttl /\ Horizon >= 3 * 60)
        /\ (HasEntry /\ Age > fc_ttl) => ~Unwrap(fc_result).value
        /\ (HasEntry /\ Horizon < 3 * 60) => ~Unwrap(fc_result).value

\* C20 witness: is_valid returned false one minute after the TTL elapsed for an
\* entry whose last timestamp is two days ahead.
C20_Witness ==
    /\ Answered
    /\ HasEntry
    /\ Age = fc_ttl + 1
    /\ Horizon > MinutesPerDay
    /\ ~Unwrap(fc_result).value


\* the get call that just returned
Got == ~IsNone(fc_result) /\ Unwrap(fc_result).op = "get"

C23_ClearFlushesEveryKey ==
    fc_log = EmptyDict =>
        /\ \A key \in ForecastKeys :
              /\ ForecastGet(fc_cache, key) = None
              /\ ~IsValid(fc_cache, fc_fetched_at, fc_last_forecast_time, fc_ttl, key, fc_now)
        /\ Got => Unwrap(fc_result).value = None
        /\ Answered => ~Unwrap(fc_result).value

\* C23 witness: both keys had entries, the cache was cleared, and is_valid then
\* returned false.
C23_Witness ==
    /\ fc_sets >= 2
    /\ fc_log = EmptyDict
    /\ Answered
    /\ ~Unwrap(fc_result).value


----------------------------------------------------------------------------
(* SpecGetForecast: OpenMeteoClient.get_forecast (client.py 728-826) over the
   forecast cache, on a running clock *)

\* types.py 73, 80
DEFAULT_FORECAST_DAYS == 7
MAX_FORECAST_DAYS == 16

\* _validate_coordinates and _validate_forecast_days, client.py 350-357, 403-406
ForecastValidationError(r) ==
    \/ ~(-9000000 <= r.latitude /\ r.latitude <= 9000000)
    \/ ~(-18000000 <= r.longitude /\ r.longitude <= 18000000)
    \/ ~(1 <= r.days /\ r.days <= MAX_FORECAST_DAYS)

\* A plausible slip: the number of days is part of the key.
KeyOf_WithDays(r) == <<r.latitude, r.longitude, r.step, r.days>>

\* the key get_forecast passes to the cache
KeyOf(r) == <<r.latitude, r.longitude, r.step>>

\* the get_forecast calls the model makes
ForecastCalls ==
    {[latitude |-> 5575000, longitude |-> StoreLon, days |-> DEFAULT_FORECAST_DAYS,
      step |-> st, force_refresh |-> f] : st \in TimeStep, f \in BOOLEAN}

InvalidForecastCalls ==
    LET base == [latitude |-> 5575000, longitude |-> StoreLon,
                 days |-> DEFAULT_FORECAST_DAYS, step |-> HOURLY, force_refresh |-> FALSE]
    IN  {[base EXCEPT !.latitude = -9100000],
         [base EXCEPT !.longitude = 18100000],
         [base EXCEPT !.days = 0],
         [base EXCEPT !.days = MAX_FORECAST_DAYS + 1, !.force_refresh = TRUE]}

\* what the forecast API can answer for a resolution
ForecastResponses(step) == {data \in ForecastData : data_key(step) \in DOMAIN data}

\* A plausible slip: force_refresh is not looked at.
ServeCached_IgnoresForce(force_refresh, valid) == valid

\* client.py 796-798: the condition under which the cache is read
ServeCached(force_refresh, valid) == ~force_refresh /\ valid

\* client.py 792-806: the call up to its return from the cache or up to the await
\* of _fetch
GetForecastCall(r) ==
    /\ g_pc = "idle"
    /\ fc_sets < MaxSets
    /\ g_req' = r
    /\ fc_result' = None
    /\ IF ForecastValidationError(r)
       THEN /\ g_error' = "OpenMeteoValidationError"
            /\ g_pc' = "done"
            /\ g_response' = None
            /\ g_cached' = FALSE
            /\ g_fetched' = FALSE
       ELSE LET valid == IsValid(fc_cache, fc_fetched_at, fc_last_forecast_time, fc_ttl,
                                 KeyOf(r), fc_now)
                cached == ForecastGet(fc_cache, KeyOf(r))
                serve == /\ ServeCached(r.force_refresh, valid)
                         /\ ~IsNone(cached)
                         /\ Unwrap(cached) # EmptyDict
            IN  /\ g_error' = ""
                /\ g_pc' = IF serve THEN "done" ELSE "fetch"
                /\ g_response' = IF serve THEN cached ELSE None
                /\ g_cached' = serve
                /\ g_fetched' = ~serve
    /\ UNCHANGED <<fc_now, fc_ttl, fc_cache, fc_fetched_at, fc_last_forecast_time, fc_sets,
                   fc_log>>
    /\ UNCHANGED <<today, clientVars, mergeVars, recentVars, storeVars, trimVars, raceVars, keyVars, extVars>>

\* HourlyResponse(**data) / DailyResponse(**data), client.py 819-822, accepts the
\* dict: the section of the resolution and its `time` list are required fields
\* (models.py 145, 212, 320, 360)
Decodes(data, step) ==
    /\ data_key(step) \in DOMAIN data
    /\ "time" \in DOMAIN data[data_key(step)]

\* answers the response models reject: no section, a section without `time`
UndecodableResponses(step) ==
    {[k \in {"timezone"} |-> "auto"], Envelope(step, MkData(None, None, None))}

\* client.py 817-826: _fetch returns, the response object is built, stored and
\* returned
ForecastFetchReturns(data, t) ==
    /\ g_pc = "fetch"
    /\ Decodes(data, g_req.step)
    /\ SetEntry(KeyOf(g_req), data, t)
    /\ g_response' = Some(data)
    /\ g_pc' = "done"
    /\ UNCHANGED <<g_req, g_error, g_cached, g_fetched>>
    /\ UNCHANGED <<today, clientVars, mergeVars, recentVars, storeVars, trimVars, raceVars, keyVars, extVars>>

\* client.py 433-445: _fetch raises; the exception leaves get_forecast
ForecastFetchRaises(e) ==
    /\ g_pc = "fetch"
    /\ g_error' = e
    /\ g_pc' = "done"
    /\ UNCHANGED <<g_req, g_response, g_cached, g_fetched>>
    /\ UNCHANGED forecastVars
    /\ UNCHANGED <<today, clientVars, mergeVars, recentVars, storeVars, trimVars, raceVars, keyVars, extVars>>

\* A plausible slip: the raw dict is stored before the response object is built.
ForecastDecodeRaises_StoresFirst(data) ==
    /\ g_pc = "fetch"
    /\ ~Decodes(data, g_req.step)
    /\ SetEntry(KeyOf(g_req), data, fc_now)
    /\ g_error' = "ValidationError"
    /\ g_pc' = "done"
    /\ UNCHANGED <<g_req, g_response, g_cached, g_fetched>>
    /\ UNCHANGED <<today, clientVars, mergeVars, recentVars, storeVars, trimVars, raceVars, keyVars, extVars>>

\* client.py 819-822: _fetch returned a dict the response model rejects; the
\* pydantic ValidationError leaves get_forecast before line 824
ForecastDecodeRaises(data) ==
    /\ g_pc = "fetch"
    /\ ~Decodes(data, g_req.step)
    /\ g_error' = "ValidationError"
    /\ g_pc' = "done"
    /\ UNCHANGED <<g_req, g_response, g_cached, g_fetched>>
    /\ UNCHANGED forecastVars
    /\ UNCHANGED <<today, clientVars, mergeVars, recentVars, storeVars, trimVars, raceVars, keyVars, extVars>>

\* the caller takes the result
ForecastReturn ==
    /\ g_pc = "done"
    /\ g_pc' = "idle"
    /\ g_req' = EmptyDict
    /\ g_response' = None
    /\ g_error' = ""
    /\ g_cached' = FALSE
    /\ g_fetched' = FALSE
    /\ UNCHANGED forecastVars
    /\ UNCHANGED <<today, clientVars, mergeVars, recentVars, storeVars, trimVars, raceVars, keyVars, extVars>>

NextGetForecast ==
    \/ \E t \in ForecastClock : Tick(t)
    \/ \E r \in ForecastCalls \cup InvalidForecastCalls : GetForecastCall(r)
    \/ \E data \in (IF g_pc = "fetch" THEN ForecastResponses(g_req.step) ELSE {}),
          t \in {c \in ForecastClock : c >= fc_now} : ForecastFetchReturns(data, t)
    \/ \E e \in {"OpenMeteoConnectionError", "OpenMeteoAPIError"} : ForecastFetchRaises(e)
    \/ \E data \in (IF g_pc = "fetch" THEN UndecodableResponses(g_req.step) ELSE {}) :
          ForecastDecodeRaises(data)
    \/ ForecastReturn
    \/ ForecastClear

SpecGetForecast == InitForecast /\ [][NextGetForecast]_vars

\* C21: an entry set with a series whose time axis is empty or missing has the
\* time of that set call as lastObservedAt (between the start and the return of
\* the call), is_valid is false for its key at every later instant until the
\* next set, and get_forecast never returns it as the cached snapshot.
C21_EmptySeriesNeverValid ==
    /\ \A key \in DOMAIN fc_cache :
          NoTimes(fc_cache[key]) =>
              /\ fc_fetched_at[key] <= fc_last_forecast_time[key]
              /\ fc_last_forecast_time[key] <= fc_log[key].returned
              /\ fc_last_forecast_time[key] <= fc_now
              /\ ~IsValid(fc_cache, fc_fetched_at, fc_last_forecast_time, fc_ttl, key, fc_now)
    /\ (g_pc = "done" /\ g_cached) => ~NoTimes(Unwrap(g_response))

\* C21 witness: a call without force_refresh, made at the very instant an empty
\* series was stored for its key, goes to the network.
C21_Witness ==
    /\ g_pc = "fetch"
    /\ ~g_req.force_refresh
    /\ KeyOf(g_req) \in DOMAIN fc_cache
    /\ NoTimes(fc_cache[KeyOf(g_req)])
    /\ fc_fetched_at[KeyOf(g_req)] = fc_now


\* the entry for the key of call r exists, is within its TTL and ends more than
\* the safety margin ahead
EntryValid(r) ==
    /\ KeyOf(r) \in DOMAIN fc_cache
    /\ fc_now - fc_fetched_at[KeyOf(r)] <= fc_ttl
    /\ fc_now <= fc_last_forecast_time[KeyOf(r)] - 3 * 60

\* C24: a get_forecast call that passed validation goes to the network exactly
\* when the entry for its key is not valid or force_refresh is true; otherwise
\* it returns the cached snapshot and leaves the cache as it is. A fetch that
\* returns replaces the entry of the key by the fetched snapshot.
C24_FetchOnlyOnMissOrForce ==
    [][/\ (g_pc = "idle" /\ g_pc' # "idle" /\ g_error' = "") =>
              /\ g_fetched' <=> (~EntryValid(g_req') \/ g_req'.force_refresh)
              /\ (g_pc' = "fetch") <=> g_fetched'
              /\ ~g_fetched' =>
                    /\ g_pc' = "done"
                    /\ g_cached'
                    /\ g_response' = Some(fc_cache[KeyOf(g_req')])
              /\ UNCHANGED <<fc_cache, fc_fetched_at, fc_last_forecast_time>>
       /\ (g_pc = "fetch" /\ g_pc' = "done" /\ g_error' = "") =>
              /\ fc_cache'[KeyOf(g_req)] = Unwrap(g_response')
              /\ fc_fetched_at'[KeyOf(g_req)] = fc_now
      ]_vars

\* C24 witness: a call with force_refresh is at the network although the entry
\* for its key is valid.
C24_Witness ==
    /\ g_pc = "fetch"
    /\ g_req.force_refresh
    /\ EntryValid(g_req)


----------------------------------------------------------------------------
(* SpecTrim: _trim_to_range (client.py 506-565) applied to one series *)

MaxTrimLen == 3

\* timestamps around the windows: the first and the last hour of a day and the
\* first hour of the next; three consecutive days
TrimTimes(step) ==
    IF step = DAILY THEN {<<2024, 1, 15>>, <<2024, 1, 16>>, <<2024, 1, 17>>}
    ELSE {<<2024, 1, 15, 0, 0>>, <<2024, 1, 15, 23, 0>>, <<2024, 1, 16, 0, 0>>}

\* the window bounds
TrimDates == {<<2024, 1, 14>>, <<2024, 1, 15>>, <<2024, 1, 16>>}

\* the series handed to _trim_to_range: `time` absent or any list (any order,
\* repeats allowed), "v" absent, null, one value per timestamp or one value
\* short; and a response without a data section
TrimInputs(step) ==
    LET TimeOpts == {None} \cup {Some(Col(l)) : l \in SeqsUpTo(TrimTimes(step), MaxTrimLen)}
        Len0(t) == IF IsNone(t) THEN 0 ELSE Len(Unwrap(t).list)
        VOpts(t) == {None, Some(NullCol), Some(Col([i \in 1..Len0(t) |-> i]))}
                    \cup (IF Len0(t) = 0 THEN {}
                          ELSE {Some(Col([i \in 1..(Len0(t) - 1) |-> i]))})
    IN  UNION {{Envelope(step, MkData(t, v, None)) : v \in VOpts(t)} : t \in TimeOpts}
        \cup {[k \in {"timezone"} |-> "auto"]}

InitTrim ==
    /\ HistIdle
    /\ m_pc = "off" /\ m_step = DAILY /\ m_existing = None /\ m_new = EmptyDict
    /\ m_result = None /\ m_calls = 0
    /\ r_month = None /\ r_result = None
    /\ c_query = None /\ c_result = None /\ c_log = EmptyDict /\ c_saves = 0
    /\ ForecastOff
    /\ RaceOff
    /\ KeyOff
    /\ ExtOff
    /\ GetIdle
    /\ t_pc = "input"
    /\ t_step \in TimeStep
    /\ t_data \in TrimInputs(t_step)
    /\ t_start \in TrimDates
    /\ t_end \in TrimDates
    /\ t_result = None

\* self._trim_to_range(data, start_date, end_date, step) returns
TrimCall ==
    /\ t_pc = "input"
    /\ t_result' = Some(TrimToRange(t_data, t_start, t_end, t_step))
    /\ t_pc' = "trimmed"
    /\ UNCHANGED <<t_data, t_start, t_end, t_step>>
    /\ UNCHANGED <<mergeVars, histVars, recentVars, storeVars, forecastVars, getVars, raceVars, keyVars, extVars>>

NextTrim == TrimCall

SpecTrim == InitTrim /\ [][NextTrim]_vars

\* the series of the call, its timestamps, and the positions whose calendar day
\* lies in [start_date, end_date]
TrimSection(data) == Get(data, data_key(t_step), EmptyDict)
TrimTime == TimeOf(TrimSection(t_data))
DayOf(t) == ToOrdinal(<<t[1], t[2], t[3]>>)
InWindow == {i \in 1..Len(TrimTime) :
                ToOrdinal(t_start) <= DayOf(TrimTime[i]) /\ DayOf(TrimTime[i]) <= ToOrdinal(t_end)}

\* the values at the positions of S that the list has, in the order of the list
Pick(values, S) ==
    LET T == S \cap (1..Len(values))
    IN  [j \in 1..Cardinality(T) |->
            values[CHOOSE n \in T : Cardinality({k \in T : k < n}) = j - 1]]

\* C25: when a timestamp lies in the window the result is the series restricted
\* to the positions whose timestamp lies in the window, in the original order:
\* every list of the series is projected to those positions (a list shorter
\* than `time` to those of them it has), a null column, the other keys of the
\* series and the metadata are unchanged.
C25_TrimSelectsWindow ==
    (t_pc = "trimmed" /\ InWindow # {}) =>
        LET result == Unwrap(t_result)
            in == TrimSection(t_data)
            out == TrimSection(result)
        IN  /\ DOMAIN result = DOMAIN t_data
            /\ \A k \in DOMAIN t_data \ {data_key(t_step)} : result[k] = t_data[k]
            /\ DOMAIN out = DOMAIN in
            /\ out["time"] = Col(Pick(TrimTime, InWindow))
            /\ \A f \in DOMAIN in :
                  IF in[f].null THEN out[f] = in[f]
                  ELSE out[f] = Col(Pick(in[f].list, InWindow))

\* C25 witness: of three hourly timestamps, out of order, the window keeps the
\* two of its day and drops the midnight of the next day; the column is
\* projected with them.
C25_Witness ==
    /\ t_pc = "trimmed"
    /\ t_step = HOURLY
    /\ TrimTime = <<<<2024, 1, 15, 23, 0>>, <<2024, 1, 16, 0, 0>>, <<2024, 1, 15, 0, 0>>>>
    /\ t_start = <<2024, 1, 15>> /\ t_end = <<2024, 1, 15>>
    /\ "v" \in DOMAIN TrimSection(t_data)
    /\ TrimSection(t_data)["v"] = Col(<<1, 2, 3>>)
    /\ TrimSection(Unwrap(t_result))["v"] = Col(<<1, 3>>)
    /\ TimeOf(TrimSection(Unwrap(t_result))) =
          <<<<2024, 1, 15, 23, 0>>, <<2024, 1, 15, 0, 0>>>>

----------------------------------------------------------------------------
(* SpecAging: get_historical for a month that is fetched while it is running
   and asked for again when it is no longer recent *)

\* the UTC date of the first calls, and a date more than five months later
AgingStart == <<2024, 1, 10>>
AgingLater == <<2024, 7, 15>>

\* windows inside 2024-01: its first day, its first half, its 15th day
AgingCalls(st) ==
    {[latitude |-> 5575000, longitude |-> 3762000, start_date |-> w[1], end_date |-> w[2],
      step |-> st, timezone |-> "auto", variables |-> None, trim_to_range |-> t] :
        w \in {<<<<2024, 1, 1>>, <<2024, 1, 1>>>>, <<<<2024, 1, 1>>, <<2024, 1, 15>>>>,
               <<<<2024, 1, 15>>, <<2024, 1, 15>>>>},
        t \in BOOLEAN}

InitAging ==
    /\ today = AgingStart
    /\ ClientIdle
    /\ MergeOff
    /\ UnitIdle

\* months pass between two calls
Later ==
    /\ pc = "idle"
    /\ today = AgingStart
    /\ today' = AgingLater
    /\ UNCHANGED clientVars
    /\ UNCHANGED <<mergeVars, unitVars>>

NextAging ==
    \/ \E r \in (IF calls < MaxCalls THEN AgingCalls(resolution) ELSE {}) : Call(r)
    \/ FetchReturns("ok")
    \/ \E e \in FetchErrors : FetchRaises(e)
    \/ Finish
    \/ Return(FALSE)
    \/ Later

SpecAging == InitAging /\ [][NextAging]_vars

\* C27 (as claimed): a get_historical call with trim_to_range true returned a
\* series; every timestamp of the series lies within [start_date, end_date].
C27_TrimmedSeriesInsideWindow ==
    (pc = "done" /\ error = "" /\ req.trim_to_range) =>
        \A i \in 1..Len(SeriesTime(Unwrap(response))) :
            LET t == SeriesTime(Unwrap(response))[i]
            IN  /\ DateLE(req.start_date, <<t[1], t[2], t[3]>>)
                /\ DateLE(<<t[1], t[2], t[3]>>, req.end_date)


----------------------------------------------------------------------------
(* SpecSession: one client, get_historical and get_forecast calls one after
   the other, valid and invalid *)

\* a valid get_historical call (its month is fetched on every call)
SessionCalls ==
    {[latitude |-> 5575000, longitude |-> 3762000, start_date |-> <<2023, 12, 1>>,
      end_date |-> <<2023, 12, 1>>, step |-> DAILY, timezone |-> "auto",
      variables |-> None, trim_to_range |-> TRUE]}

\* a valid get_forecast call and what the API answers to it
SessionForecastCalls ==
    {[latitude |-> 5575000, longitude |-> StoreLon, days |-> DEFAULT_FORECAST_DAYS,
      step |-> HOURLY, force_refresh |-> FALSE]}
SessionForecast ==
    Envelope(HOURLY, MkData(Some(Col(<<<<2024, 1, 1, 0, 0>>, <<2024, 1, 3, 0, 0>>>>)),
                            None, None))

NextSession ==
    \/ \E r \in (IF g_pc = "idle" /\ calls < MaxCalls
                 THEN SessionCalls \cup InvalidCalls ELSE {}) : Call(r)
    \/ FetchReturns("ok")
    \/ Finish
    \/ Return(FALSE)
    \/ \E r \in (IF pc = "idle" THEN SessionForecastCalls \cup InvalidForecastCalls
                 ELSE {}) : GetForecastCall(r)
    \/ ForecastFetchReturns(SessionForecast, fc_now)
    \/ ForecastReturn

SpecSession == InitForecast /\ [][NextSession]_vars

\* the arguments of a get_historical call r are out of domain on the date d
OutOfDomain(r, d) ==
    \/ r.latitude < -9000000 \/ r.latitude > 9000000
    \/ r.longitude < -18000000 \/ r.longitude > 18000000
    \/ ToOrdinal(r.start_date) > ToOrdinal(r.end_date)
    \/ ToOrdinal(r.end_date) > ToOrdinal(d)

\* the arguments of a get_forecast call r are out of domain
ForecastOutOfDomain(r) ==
    \/ r.latitude < -9000000 \/ r.latitude > 9000000
    \/ r.longitude < -18000000 \/ r.longitude > 18000000
    \/ r.days < 1 \/ r.days > 16

----------------------------------------------------------------------------
(* SpecRace: two get_historical calls for one location, resolution and month,
   made by callers that share the cache directory (by default
   ~/.cache/openmeteo/historical, client.py 269-271) and are scheduled
   independently of each other, as two processes or two threads are.
   save_month (cache.py 219-225) opens the file with mode "w", which truncates
   it, lets json.dump write the text through the file object's own offset, and
   closes it; nothing makes these steps one step. *)

\* calls per caller in one behaviour
MaxRaceCalls == 2
\* blocks of the longest document
MaxBlocks == 2

\* a JSON document of n blocks holding the values of archive version v
Doc(v, n) == [i \in 1..n |-> [v |-> v, i |-> i, n |-> n]]
\* what the archive answers for the month: two documents of the same layout and
\* a shorter one
RaceDocs == {Doc(1, MaxBlocks), Doc(2, MaxBlocks), Doc(3, 1)}
\* bytes never written, below a write made beyond the end of the file
Hole == [v |-> 0, i |-> 0, n |-> 0]

\* write(2) of block b at block offset k (1-based) of a file holding content
PutBlock(content, k, b) ==
    [i \in 1..(IF k > Len(content) THEN k ELSE Len(content)) |->
        IF i = k THEN b ELSE IF i <= Len(content) THEN content[i] ELSE Hole]

\* json.load of the file text: a dict when the text is one well-formed document
\* (block i of an n-block layout at place i, n blocks in all), an exception
\* otherwise; load_month turns the exception into None (cache.py 186-194)
LoadBlocks(content) ==
    IF /\ content # <<>>
       /\ \A i \in 1..Len(content) : content[i].i = i /\ content[i].n = Len(content)
    THEN Some(content)
    ELSE None

InitRace ==
    /\ today = <<2024, 7, 15>>
    /\ ClientIdle
    /\ MergeOff
    /\ UnitIdle

RaceUnchanged == UNCHANGED <<mergeVars, histVars, recentVars, storeVars,
                             forecastVars, getVars, trimVars, keyVars, extVars>>

\* get_historical up to the plan (client.py 642-644): the month is missing when
\* its file does not exist (cache.py 315-322; the month is not recent)
RaceCall(c) ==
    /\ w_pc[c] = "idle"
    /\ w_calls[c] < MaxRaceCalls
    /\ w_calls' = [w_calls EXCEPT ![c] = @ + 1]
    /\ w_pc' = [w_pc EXCEPT ![c] = IF IsNone(partition_file) THEN "fetching" ELSE "loading"]
    /\ w_loaded' = [w_loaded EXCEPT ![c] = None]
    /\ UNCHANGED <<w_data, w_pos, partition_file, w_last>>
    /\ RaceUnchanged

\* await self._fetch(...) returns (client.py 670)
RaceFetchReturns(c, doc) ==
    /\ w_pc[c] = "fetching"
    /\ w_pc' = [w_pc EXCEPT ![c] = "fetched"]
    /\ w_data' = [w_data EXCEPT ![c] = doc]
    /\ UNCHANGED <<w_pos, w_calls, w_loaded, partition_file, w_last>>
    /\ RaceUnchanged

\* save_month: open(cache_file, "w") creates or truncates the file (cache.py 221)
RaceOpen(c) ==
    /\ w_pc[c] = "fetched"
    /\ w_pc' = [w_pc EXCEPT ![c] = "writing"]
    /\ w_pos' = [w_pos EXCEPT ![c] = 0]
    /\ partition_file' = Some(<<>>)
    /\ UNCHANGED <<w_data, w_calls, w_loaded, w_last>>
    /\ RaceUnchanged

\* save_month: json.dump's text reaches the file, one block at the file
\* object's offset (cache.py 222)
RaceWrite(c) ==
    /\ w_pc[c] = "writing"
    /\ w_pos[c] < Len(w_data[c])
    /\ w_pos' = [w_pos EXCEPT ![c] = @ + 1]
    /\ partition_file' = Some(PutBlock(Unwrap(partition_file), w_pos[c] + 1,
                                   w_data[c][w_pos[c] + 1]))
    /\ UNCHANGED <<w_pc, w_data, w_calls, w_loaded, w_last>>
    /\ RaceUnchanged

\* save_month: the with block closes the file and save_month returns
\* (cache.py 221-223)
RaceClose(c) ==
    /\ w_pc[c] = "writing"
    /\ w_pos[c] = Len(w_data[c])
    /\ w_pc' = [w_pc EXCEPT ![c] = "saved"]
    /\ w_last' = Some(w_data[c])
    /\ UNCHANGED <<w_data, w_pos, w_calls, w_loaded, partition_file>>
    /\ RaceUnchanged

\* load_month by a call that found the month cached (client.py 687-691,
\* cache.py 186-194)
RaceLoad(c) ==
    /\ w_pc[c] = "loading"
    /\ w_pc' = [w_pc EXCEPT ![c] = "loaded"]
    /\ w_loaded' = [w_loaded EXCEPT ![c] =
                       IF IsNone(partition_file) THEN None ELSE LoadBlocks(Unwrap(partition_file))]
    /\ UNCHANGED <<w_data, w_pos, w_calls, partition_file, w_last>>
    /\ RaceUnchanged

\* get_historical returns
RaceReturn(c) ==
    /\ w_pc[c] \in {"saved", "loaded"}
    /\ w_pc' = [w_pc EXCEPT ![c] = "idle"]
    /\ UNCHANGED <<w_data, w_pos, w_calls, w_loaded, partition_file, w_last>>
    /\ RaceUnchanged

NextRace ==
    \/ \E c \in Callers : RaceCall(c)
    \/ \E c \in Callers, doc \in RaceDocs : RaceFetchReturns(c, doc)
    \/ \E c \in Callers : RaceOpen(c)
    \/ \E c \in Callers : RaceWrite(c)
    \/ \E c \in Callers : RaceClose(c)
    \/ \E c \in Callers : RaceLoad(c)
    \/ \E c \in Callers : RaceReturn(c)

SpecRace == InitRace /\ [][NextRace]_vars

\* C29: when two get_historical calls for the same location, resolution and
\* month run concurrently, then, once no write is in progress, the partition
\* file holds exactly the document of the save_month that returned last, and
\* every load_month that returns a fragment returns one whole fetched document,
\* never a partial or mixed one.
C29_LastWriteWinsNoTornRead ==
    /\ ((\A c \in Callers : w_pc[c] # "writing") /\ ~IsNone(w_last)) =>
           partition_file = w_last
    /\ \A c \in Callers :
           ~IsNone(w_loaded[c]) => Unwrap(w_loaded[c]) \in RaceDocs


----------------------------------------------------------------------------
(* SpecKey: _coord_key applied to two coordinate pairs. A coordinate is a
   float, given by its sign bit and its magnitude in 0.00001 degrees, so that
   -0.0 and 0.0 are two floats. *)

Float(neg, mag) == [neg |-> neg, mag |-> mag]

\* _coord_key(lat, lon) on floats, cache.py 63
CoordKeyFloat(lat, lon) == <<Fmt4Float(lat.neg, lat.mag), Fmt4Float(lon.neg, lon.mag)>>

\* valid latitudes: zeros of both signs, values that round to zero, decimal
\* ties, Moscow and its mirror image, the pole
KeyLats ==
    {Float(FALSE, 0), Float(TRUE, 0), Float(FALSE, 1), Float(TRUE, 1),
     Float(FALSE, 5), Float(FALSE, 15), Float(FALSE, 16),
     Float(FALSE, 5575000), Float(TRUE, 5575000), Float(FALSE, 5575005),
     Float(FALSE, 5575015), Float(FALSE, 9000000)}
\* valid longitudes
KeyLons ==
    {Float(FALSE, 0), Float(FALSE, 3762000), Float(TRUE, 3762000),
     Float(FALSE, 3762011)}
KeyPairs == {<<lat, lon>> : lat \in KeyLats, lon \in KeyLons}

InitKey ==
    /\ today = <<2024, 7, 15>>
    /\ ClientIdle
    /\ MergeOff
    /\ ForecastOff /\ GetIdle /\ TrimOff /\ RaceOff /\ ExtOff
    /\ r_month = None /\ r_result = None
    /\ c_query = None /\ c_result = None /\ c_log = EmptyDict /\ c_saves = 0
    /\ k_pc = "input"
    /\ k_a \in KeyPairs
    /\ k_b \in KeyPairs
    /\ k_keys = None

\* the two calls of _coord_key return
KeyCall ==
    /\ k_pc = "input"
    /\ k_pc' = "keyed"
    /\ k_keys' = Some(<<CoordKeyFloat(k_a[1], k_a[2]), CoordKeyFloat(k_b[1], k_b[2])>>)
    /\ UNCHANGED <<k_a, k_b>>
    /\ UNCHANGED <<mergeVars, histVars, recentVars, storeVars, forecastVars, getVars,
                   trimVars, raceVars, extVars>>

NextKey == KeyCall

SpecKey == InitKey /\ [][NextKey]_vars

\* the number a float stands for, in 0.00001 degrees
FloatValue(x) == IF x.neg THEN -x.mag ELSE x.mag
\* x == y on floats: -0.0 == 0.0
FloatEq(x, y) == FloatValue(x) = FloatValue(y)

\* equal coordinate pairs give the same key
KeyDeterministic ==
    (k_pc = "keyed" /\ FloatEq(k_a[1], k_b[1]) /\ FloatEq(k_a[2], k_b[2])) =>
        Unwrap(k_keys)[1] = Unwrap(k_keys)[2]

\* pairs more than 0.0001 apart in latitude or in longitude give different keys
KeySeparatesDistantPairs ==
    (/\ k_pc = "keyed"
     /\ \E i \in 1..2 : Abs(FloatValue(k_a[i]) - FloatValue(k_b[i])) > 10) =>
        Unwrap(k_keys)[1] # Unwrap(k_keys)[2]

\* a negative coordinate and a positive one are formatted differently
KeySeparatesSigns ==
    k_pc = "keyed" =>
        \A i \in 1..2 :
            (FloatValue(k_a[i]) < 0 /\ FloatValue(k_b[i]) > 0) =>
                Unwrap(k_keys)[1][i] # Unwrap(k_keys)[2][i]

\* C30: _coord_key gives equal keys for equal coordinate pairs, different keys
\* for two valid pairs that differ by more than 0.0001 in latitude or in
\* longitude, and never the same key for a negative and a positive coordinate.
C30_CoordKeyDeterministicAndSeparating ==
    /\ KeyDeterministic
    /\ KeySeparatesDistantPairs
    /\ KeySeparatesSigns


----------------------------------------------------------------------------
(* SpecLifecycle: _ensure_client, _fetch and close on one OpenMeteoClient,
   client.py 300-333 and 431-447, one operation after the other *)

\* operations in one behaviour
MaxOps == 6

\* what a request can end with (client.py 433-445)
RequestOutcomes == {"ok", "OpenMeteoConnectionError", "OpenMeteoAPIError"}

InitLifecycle ==
    /\ today = <<2024, 7, 15>>
    /\ ClientIdle
    /\ MergeOff
    /\ ForecastOff /\ GetIdle /\ TrimOff /\ RaceOff /\ KeyOff /\ LoopOff /\ ConcOff
    /\ r_month = None /\ r_result = None
    /\ c_query = None /\ c_result = None /\ c_log = EmptyDict /\ c_saves = 0
    /\ h_pc = "idle"
    /\ h_client = None
    /\ h_open = {}
    /\ h_created = 0
    /\ h_ops = 0
    /\ h_result = None

LifeUnchanged == UNCHANGED <<mergeVars, histVars, recentVars, storeVars, forecastVars,
                             getVars, trimVars, raceVars, keyVars, loopVars, concVars>>

\* A plausible slip: a new httpx.AsyncClient on every call.
Ensure_AlwaysNew(op, outcome) ==
    /\ h_pc = "idle"
    /\ h_ops < MaxOps
    /\ h_ops' = h_ops + 1
    /\ h_created' = h_created + 1
    /\ h_client' = Some(h_created + 1)
    /\ h_open' = h_open \cup {h_created + 1}
    /\ h_result' = Some([op |-> op, client |-> h_created + 1, created |-> TRUE,
                         outcome |-> outcome])
    /\ UNCHANGED h_pc
    /\ LifeUnchanged

\* _ensure_client, client.py 314-316, called by operation op that then ends
\* with outcome
Ensure(op, outcome) ==
    /\ h_pc = "idle"
    /\ h_ops < MaxOps
    /\ h_ops' = h_ops + 1
    /\ IF IsNone(h_client)
       THEN /\ h_created' = h_created + 1
            /\ h_client' = Some(h_created + 1)
            /\ h_open' = h_open \cup {h_created + 1}
            /\ h_result' = Some([op |-> op, client |-> h_created + 1, created |-> TRUE,
                                 outcome |-> outcome])
       ELSE /\ h_result' = Some([op |-> op, client |-> Unwrap(h_client),
                                 created |-> FALSE, outcome |-> outcome])
            /\ UNCHANGED <<h_created, h_client, h_open>>
    /\ UNCHANGED h_pc
    /\ LifeUnchanged

\* await self._ensure_client(), as __aenter__ calls it (client.py 287)
EnsureClient == Ensure("ensure", "ok")

\* _fetch: the client is ensured, then the GET returns or raises
\* (client.py 431-447); the HTTP client stays as it is either way
Request(outcome) == Ensure("request", outcome)

\* close() without a client: nothing to do (client.py 331)
CloseNoop ==
    /\ h_pc = "idle"
    /\ h_ops < MaxOps
    /\ IsNone(h_client)
    /\ h_ops' = h_ops + 1
    /\ h_result' = Some([op |-> "close", client |-> 0, created |-> FALSE,
                         outcome |-> "noop"])
    /\ UNCHANGED <<h_pc, h_client, h_open, h_created>>
    /\ LifeUnchanged

\* close() with a client: await self._client.aclose() (client.py 331-332)
CloseBegin ==
    /\ h_pc = "idle"
    /\ h_ops < MaxOps
    /\ ~IsNone(h_client)
    /\ h_ops' = h_ops + 1
    /\ h_pc' = "closing"
    /\ UNCHANGED <<h_client, h_open, h_created, h_result>>
    /\ LifeUnchanged

\* aclose() has released the client; self._client = None (client.py 333)
CloseEnd ==
    /\ h_pc = "closing"
    /\ h_pc' = "idle"
    /\ h_open' = h_open \ {Unwrap(h_client)}
    /\ h_client' = None
    /\ h_result' = Some([op |-> "close", client |-> Unwrap(h_client), created |-> FALSE,
                         outcome |-> "released"])
    /\ UNCHANGED <<h_created, h_ops>>
    /\ LifeUnchanged

NextLifecycle ==
    \/ EnsureClient
    \/ \E outcome \in RequestOutcomes : Request(outcome)
    \/ CloseNoop
    \/ CloseBegin
    \/ CloseEnd

SpecLifecycle == InitLifecycle /\ [][NextLifecycle]_vars

\* the open HTTP clients are exactly the one self._client refers to, if any
OneClient ==
    /\ Cardinality(h_open) <= 1
    /\ h_open = (IF IsNone(h_client) THEN {} ELSE {Unwrap(h_client)})

\* C31: in any sequence of _ensure_client, request and close operations at most
\* one HTTP client exists at a time, and it is the one self._client refers to;
\* an operation that ensures the client creates one only when there is none and
\* otherwise returns the existing one; close releases the client and resets
\* self._client to None; close without a client changes nothing.
C31_AtMostOneHttpClient ==
    [][/\ OneClient
       /\ OneClient'
       /\ (h_ops' = h_ops + 1 /\ ~IsNone(h_result') /\ h_result' # h_result
           /\ Unwrap(h_result').op \in {"ensure", "request"} /\ h_pc' = "idle") =>
              /\ Unwrap(h_result').created = IsNone(h_client)
              /\ h_client' = Some(Unwrap(h_result').client)
              /\ ~IsNone(h_client) => UNCHANGED <<h_client, h_open, h_created>>
       /\ (h_pc = "closing" /\ h_pc' = "idle") =>
              /\ h_client' = None
              /\ h_open' = {}
       /\ (h_pc = "idle" /\ IsNone(h_client) /\ h_ops' = h_ops + 1
           /\ UNCHANGED h_created) =>
              UNCHANGED <<h_client, h_open>>
      ]_vars

\* C31 witness: after a first client was released, close was called again
\* without a client, a second client was created and a request reused it.
C31_Witness ==
    /\ h_created = 2
    /\ h_open = {2}
    /\ ~IsNone(h_result)
    /\ Unwrap(h_result).op = "request"
    /\ ~Unwrap(h_result).created
    /\ h_ops = MaxOps


----------------------------------------------------------------------------
(* The order of the folds of one get_historical call *)

\* C32: within one get_historical call the fragments are passed to _merge_data
\* in chronologically non-decreasing order of their month partition.
C32_FoldsInMonthOrder ==
    \A i \in 1..Len(folded) : \A j \in i..Len(folded) : StrLE(folded[i], folded[j])


----------------------------------------------------------------------------
(* A short or null variable column in the incoming fragment *)

\* the sections of the accumulator, of the incoming fragment and of the result
\* of the _merge_data call that returned
OldSection == Get(Unwrap(m_existing), data_key(m_step), EmptyDict)
NewSection == Get(m_new, data_key(m_step), EmptyDict)
MergedSection == Unwrap(m_result)[data_key(m_step)]

\* both sides have the variable "v", and the incoming column is null or
\* shorter than the incoming `time`
ShortIncomingColumn ==
    /\ m_pc = "merged"
    /\ ~IsNone(m_existing)
    /\ "v" \in DOMAIN OldSection
    /\ "v" \in DOMAIN NewSection
    /\ \/ NewSection["v"].null
       \/ Len(NewSection["v"].list) < Len(TimeOf(NewSection))

\* positions of the incoming `time` whose timestamp the accumulator lacks
FreshPositions ==
    {i \in 1..Len(TimeOf(NewSection)) : TimeOf(NewSection)[i] \notin Range(TimeOf(OldSection))}

\* C33: when a variable column of the incoming fragment is null or shorter than
\* the fragment's `time`, _merge_data returns (no index is out of bounds): the
\* merged column is the accumulator's column followed by the incoming values at
\* the new positions the incoming column has; positions beyond its length
\* contribute nothing.
C33_ShortColumnContributesNothingBeyondLength ==
    ShortIncomingColumn =>
        /\ ~IsNone(m_result)
        /\ MergedSection["v"] =
               Col(OrEmpty(OldSection["v"]) \o Pick(OrEmpty(NewSection["v"]), FreshPositions))

\* C33 witness: the incoming fragment has two new timestamps and one value of
\* "v"; the merged column gained that one value only.
C33_Witness ==
    /\ ShortIncomingColumn
    /\ Cardinality(FreshPositions) = 2
    /\ Len(NewSection["v"].list) = 1
    /\ Len(OldSection["v"].list) = 1
    /\ Len(MergedSection["v"].list) = 2


----------------------------------------------------------------------------
(* SpecLoop: the month loop of get_missing_months (cache.py 318-322) and of
   get_historical (client.py 681-692), one iteration per step *)

\* start and end dates: ends of months, a leap day, a year boundary, two years
LoopDates ==
    {<<2023, 1, 31>>, <<2023, 11, 30>>, <<2023, 12, 1>>, <<2023, 12, 31>>,
     <<2024, 1, 1>>, <<2024, 1, 31>>, <<2024, 2, 29>>, <<2024, 3, 1>>, <<2025, 1, 15>>}

InitLoop ==
    /\ today = <<2024, 7, 15>>
    /\ ClientIdle
    /\ MergeOff
    /\ ForecastOff /\ GetIdle /\ TrimOff /\ RaceOff /\ KeyOff /\ LifeOff /\ ConcOff
    /\ r_month = None /\ r_result = None
    /\ c_query = None /\ c_result = None /\ c_log = EmptyDict /\ c_saves = 0
    /\ l_pc = "loop"
    /\ l_start \in LoopDates
    /\ l_end \in {d \in LoopDates : DateLE(l_start, d)}
    /\ l_current = ReplaceDay1(l_start)
    /\ l_visited = <<>>

LoopUnchanged == UNCHANGED <<mergeVars, histVars, recentVars, storeVars, forecastVars,
                             getVars, trimVars, raceVars, keyVars, lifeVars, concVars>>

\* A plausible slip: timedelta(days=30), which stays inside a 31-day month.
NextMonth_Days30(current) == ReplaceDay1(AddDays(current, 30))

\* current = (current + timedelta(days=32)).replace(day=1)
NextMonth(current) == ReplaceDay1(AddDays(current, 32))

\* `while current <= end_month:` holds, the body runs for month_key
LoopVisit ==
    /\ l_pc = "loop"
    /\ DateLE(l_current, ReplaceDay1(l_end))
    /\ l_visited' = Append(l_visited, MonthKey(l_current))
    /\ l_current' = NextMonth(l_current)
    /\ UNCHANGED <<l_pc, l_start, l_end>>
    /\ LoopUnchanged

\* `while current <= end_month:` fails, the loop is left
LoopExit ==
    /\ l_pc = "loop"
    /\ ~DateLE(l_current, ReplaceDay1(l_end))
    /\ l_pc' = "done"
    /\ UNCHANGED <<l_start, l_end, l_current, l_visited>>
    /\ LoopUnchanged

NextLoop == LoopVisit \/ LoopExit

SpecLoop == InitLoop /\ [][NextLoop]_vars

\* the loop is not suspended: it has no await and runs on
SpecLoopFair == SpecLoop /\ WF_vars(NextLoop)

\* the calendar months from start_date's month through end_date's month, each
\* once, ascending
CalendarMonths ==
    LET first == l_start[1] * 12 + (l_start[2] - 1)
        last == l_end[1] * 12 + (l_end[2] - 1)
    IN  [i \in 1..(last - first + 1) |->
            <<(first + i - 1) \div 12, ((first + i - 1) % 12) + 1>>]

\* C34: for every start_date <= end_date the month loop terminates, and the
\* months it visits are the calendar months from start_date's month through
\* end_date's month, each exactly once and in ascending order, December being
\* followed by January of the next year; one month when both dates lie in the
\* same month.
C34_MonthLoopTerminatesVisitingEachMonthOnce ==
    /\ [](/\ Len(l_visited) <= Len(CalendarMonths)
          /\ l_visited = SubSeq(CalendarMonths, 1, Len(l_visited)))
    /\ <>(l_pc = "done" /\ l_visited = CalendarMonths)

\* C34 witness: the loop ended after it went from December 2023 to January
\* 2024 and on to March.
C34_Witness ==
    /\ l_pc = "done"
    /\ l_start = <<2023, 11, 30>>
    /\ l_end = <<2024, 3, 1>>
    /\ l_visited = <<<<2023, 11>>, <<2023, 12>>, <<2024, 1>>, <<2024, 2>>, <<2024, 3>>>>


----------------------------------------------------------------------------
(* Forecast entries and failed fetches *)

\* the entry of key, or None
EntryOf(cache, fetched_at, last_forecast_time, key) ==
    IF key \in DOMAIN cache
    THEN Some(<<cache[key], Get(fetched_at, key, None), Get(last_forecast_time, key, None)>>)
    ELSE None

\* C35: a forecast entry is created or replaced only by a get_forecast call
\* whose fetch and typed decoding succeeded; when the fetch or the decoding
\* raises, the snapshot, fetchedAt and lastObservedAt of every key are unchanged
\* and the call ends with the error and no response.
C35_OnlySuccessfulFetchWritesEntry ==
    [][/\ (g_pc = "fetch" /\ g_pc' = "done" /\ g_error' # "") =>
              /\ UNCHANGED <<fc_cache, fc_fetched_at, fc_last_forecast_time>>
              /\ g_response' = None
       /\ (g_pc = "fetch" /\ g_pc' = "done" /\ g_error' = "") =>
              /\ ~IsNone(g_response')
              /\ Decodes(Unwrap(g_response'), g_req.step)
       /\ \A key \in DOMAIN fc_cache' :
              EntryOf(fc_cache', fc_fetched_at', fc_last_forecast_time', key)
                  # EntryOf(fc_cache, fc_fetched_at, fc_last_forecast_time, key) =>
                  /\ g_pc = "fetch" /\ g_pc' = "done" /\ g_error' = ""
                  /\ key = KeyOf(g_req)
                  /\ fc_cache'[key] = Unwrap(g_response')
      ]_vars

\* C35 witness: a forced call found an entry for its key, its fetch returned a
\* dict the response model rejects, and the call ended with the error.
C35_Witness ==
    /\ g_pc = "done"
    /\ g_error = "ValidationError"
    /\ g_req.force_refresh
    /\ KeyOf(g_req) \in DOMAIN fc_cache


----------------------------------------------------------------------------
(* How often a month is folded in one get_historical call *)

\* number of _merge_data calls of this get_historical call made for month k
FoldCount(k) == Cardinality({i \in 1..Len(folded) : folded[i] = k})

\* load_month returns a dict for month k of the call's key
HasReadablePartition(k) ==
    Truthy(LoadMonth(files, req.latitude, req.longitude, req.step, k))

\* C36: in one get_historical call no month is folded twice and only months of
\* the window are folded; when the call ends without error, every month of the
\* window that was fetched in the call or has a readable partition was folded
\* exactly once, a fetched month from the fetched fragment only.
C36_EachMonthFoldedOnce ==
    /\ \A k \in Range(folded) : FoldCount(k) = 1
    /\ pc # "idle" => Range(folded) \subseteq WindowMonths(req)
    /\ (pc = "done" /\ error = "") =>
           \A k \in WindowMonths(req) :
               (k \in Range(missing_months) \/ HasReadablePartition(k)) => FoldCount(k) = 1

\* C36 witness: a call ended that fetched one month, whose partition is now
\* readable, and loaded another month from its partition. Both were folded.
C36_Witness ==
    /\ pc = "done"
    /\ error = ""
    /\ Len(folded) = 2
    /\ folded[1] \in Range(missing_months)
    /\ HasReadablePartition(folded[1])
    /\ folded[2] \notin Range(missing_months)


----------------------------------------------------------------------------
(* An expired forecast entry stays expired *)

\* is_valid(key) as it would answer in this state
ValidNow(key) ==
    IsValid(fc_cache, fc_fetched_at, fc_last_forecast_time, fc_ttl, key, fc_now)

\* C37: the clock never goes backwards, and an existing entry for which
\* is_valid is false stays one for which is_valid is false over every step that
\* is not a set: an expired entry never becomes valid again by itself.
C37_ExpiredStaysExpired ==
    [][/\ fc_now' >= fc_now
       /\ \A key \in ForecastKeys :
              (key \in DOMAIN fc_cache /\ ~ValidNow(key) /\ fc_sets' = fc_sets) =>
                  ~ValidNow(key)'
      ]_vars

\* C37 witness: is_valid returned false for an entry that had already been
\* expired at an earlier instant of the clock.
C37_Witness ==
    /\ Answered
    /\ HasEntry
    /\ ~Unwrap(fc_result).value
    /\ Age > fc_ttl + 1
    /\ Horizon > MinutesPerDay


----------------------------------------------------------------------------
(* SpecConcurrent: two get_forecast coroutines of one client, interleaved at
   their only await (client.py 817), with the clock moving and the application
   clearing the cache in between *)

\* the calls the coroutines make: both resolutions, with and without
\* force_refresh
ConcCalls ==
    {[latitude |-> 5575000, longitude |-> StoreLon, days |-> DEFAULT_FORECAST_DAYS,
      step |-> st, force_refresh |-> f] : st \in TimeStep, f \in BOOLEAN}

\* what the API answers: an hourly series far ahead, an empty hourly series, a
\* daily series
ConcResponses(step) ==
    IF step = HOURLY
    THEN {Envelope(HOURLY, MkData(Some(Col(l)), None, None)) :
             l \in {<<<<2024, 1, 1, 0, 0>>, <<2024, 1, 3, 0, 0>>>>, <<>>}}
    ELSE {Envelope(DAILY, MkData(Some(Col(<<<<2024, 1, 1>>, <<2024, 1, 2>>>>)), None, None))}

\* the instants at which something happens
ConcClock == {ForecastStart + m : m \in {0, 31, 61}}

ConcUnchanged == UNCHANGED <<today, clientVars, mergeVars, recentVars, storeVars, getVars,
                             trimVars, raceVars, keyVars, lifeVars, loopVars>>

\* client.py 789-806 for coroutine c: the call up to its return from the cache
\* or up to the await of _fetch
ConcCall(c, r) ==
    /\ q_pc[c] = "idle"
    /\ fc_sets < MaxSets
    /\ LET valid == IsValid(fc_cache, fc_fetched_at, fc_last_forecast_time, fc_ttl,
                            KeyOf(r), fc_now)
           cached == ForecastGet(fc_cache, KeyOf(r))
           serve == /\ ServeCached(r.force_refresh, valid)
                    /\ ~IsNone(cached)
                    /\ Unwrap(cached) # EmptyDict
       IN  /\ q_pc' = [q_pc EXCEPT ![c] = IF serve THEN "done" ELSE "fetching"]
           /\ q_served' = [q_served EXCEPT ![c] = serve]
    /\ q_req' = [q_req EXCEPT ![c] = Some(r)]
    /\ UNCHANGED forecastVars
    /\ ConcUnchanged

\* A plausible slip: the snapshot is stored before the await and the two
\* timestamps after it.
ConcFetchReturns_SplitSet(c, data, t) ==
    /\ q_pc[c] = "fetching"
    /\ Decodes(data, Unwrap(q_req[c]).step)
    /\ t = fc_now
    /\ fc_sets' = fc_sets + 1
    /\ fc_cache' = DictSet(fc_cache, KeyOf(Unwrap(q_req[c])), data)
    /\ fc_log' = DictSet(fc_log, KeyOf(Unwrap(q_req[c])),
                         [data |-> data, at |-> fc_now, returned |-> t])
    /\ fc_fetched_at' =
           IF KeyOf(Unwrap(q_req[c])) \in DOMAIN fc_fetched_at THEN fc_fetched_at
           ELSE DictSet(fc_fetched_at, KeyOf(Unwrap(q_req[c])), fc_now)
    /\ fc_last_forecast_time' =
           IF KeyOf(Unwrap(q_req[c])) \in DOMAIN fc_last_forecast_time
           THEN fc_last_forecast_time
           ELSE DictSet(fc_last_forecast_time, KeyOf(Unwrap(q_req[c])), GetLastTime(data, t))
    /\ q_pc' = [q_pc EXCEPT ![c] = "done"]
    /\ UNCHANGED <<fc_now, fc_ttl, fc_result, q_req, q_served>>
    /\ ConcUnchanged

\* client.py 817-826 for coroutine c: _fetch returns, the response object is
\* built and stored by set, which has no await
ConcFetchReturns(c, data, t) ==
    /\ q_pc[c] = "fetching"
    /\ Decodes(data, Unwrap(q_req[c]).step)
    /\ SetEntry(KeyOf(Unwrap(q_req[c])), data, t)
    /\ q_pc' = [q_pc EXCEPT ![c] = "done"]
    /\ UNCHANGED <<q_req, q_served>>
    /\ ConcUnchanged

\* client.py 433-445 for coroutine c: _fetch raises
ConcFetchRaises(c) ==
    /\ q_pc[c] = "fetching"
    /\ q_pc' = [q_pc EXCEPT ![c] = "done"]
    /\ UNCHANGED <<q_req, q_served>>
    /\ UNCHANGED forecastVars
    /\ ConcUnchanged

\* the caller of coroutine c takes the result
ConcReturn(c) ==
    /\ q_pc[c] = "done"
    /\ q_pc' = [q_pc EXCEPT ![c] = "idle"]
    /\ q_req' = [q_req EXCEPT ![c] = None]
    /\ q_served' = [q_served EXCEPT ![c] = FALSE]
    /\ UNCHANGED forecastVars
    /\ ConcUnchanged

NextConcurrent ==
    \/ \E t \in ConcClock : Tick(t)
    \/ \E c \in Callers, r \in ConcCalls : ConcCall(c, r)
    \/ \E c \in Callers :
          \E data \in (IF q_pc[c] = "fetching" THEN ConcResponses(Unwrap(q_req[c]).step)
                       ELSE {}),
             t \in {x \in ConcClock : x >= fc_now} : ConcFetchReturns(c, data, t)
    \/ \E c \in Callers : ConcFetchRaises(c)
    \/ \E c \in Callers : ConcReturn(c)
    \/ ForecastClear

SpecConcurrent == InitForecast /\ [][NextConcurrent]_vars

----------------------------------------------------------------------------
(* SpecParams: get_forecast (client.py 728-826) called for one location with
   different days, timezone and variables, on a running clock *)

\* the calls: one location, both resolutions, 1 or 3 days, two timezones, the
\* default variables (None) or a list of one
ParamCalls ==
    {[latitude |-> 5575000, longitude |-> StoreLon, days |-> d, step |-> st,
      timezone |-> tz, variables |-> vs, force_refresh |-> f] :
        d \in {1, 3}, st \in TimeStep, tz \in {"auto", "UTC"},
        vs \in {None, Some(<<"v">>)}, f \in BOOLEAN}

\* client.py 793-794: the default list stands for None
ForecastVariables(r) ==
    IF IsNone(r.variables) THEN DefaultVariables ELSE Range(Unwrap(r.variables))

\* what the API answers to the params of client.py 808-814: the first and the
\* last timestamp of `forecast_days` days, one column per requested variable,
\* the requested timezone
ApiForecast(r) ==
    LET times == IF r.step = HOURLY
                 THEN <<<<2024, 1, 1, 0, 0>>, <<2024, 1, r.days, 23, 0>>>>
                 ELSE <<<<2024, 1, 1>>, <<2024, 1, r.days>>>>
        column(v) == IF v \in ForecastVariables(r) THEN Some(Col(<<1, 2>>)) ELSE None
    IN  [Envelope(r.step, MkData(Some(Col(times)), column("v"), column("w")))
            EXCEPT !["timezone"] = r.timezone]

NextParams ==
    \/ \E t \in ConcClock : Tick(t)
    \/ \E r \in ParamCalls : GetForecastCall(r)
    \/ \E data \in (IF g_pc = "fetch" THEN {ApiForecast(g_req)} ELSE {}) :
          ForecastFetchReturns(data, fc_now)
    \/ \E e \in {"OpenMeteoConnectionError", "OpenMeteoAPIError"} : ForecastFetchRaises(e)
    \/ ForecastReturn
    \/ ForecastClear

SpecParams == InitForecast /\ [][NextParams]_vars

\* an entry stored for the coordinates and the resolution of call r
EntriesFor(r) ==
    {key \in DOMAIN fc_cache :
        key[1] = r.latitude /\ key[2] = r.longitude /\ key[3] = r.step}

\* the entry of key passes both tests of is_valid at the present instant
Fresh(key) ==
    /\ fc_now - fc_fetched_at[key] <= fc_ttl
    /\ fc_now <= fc_last_forecast_time[key] - CACHE_SAFETY_MARGIN_HOURS * 60

\* C39: while an entry stored for the coordinates and the resolution of a
\* get_forecast call is valid and force_refresh is not set, the call returns
\* that snapshot and does not fetch, whatever its days, variables and timezone
\* are; the cache is left as it is.
C39_KeyIsLocationAndResolutionOnly ==
    [][(g_pc = "idle" /\ g_pc' # "idle" /\ ~g_req'.force_refresh) =>
          \A key \in EntriesFor(g_req') :
              Fresh(key) =>
                  /\ g_pc' = "done"
                  /\ g_cached'
                  /\ ~g_fetched'
                  /\ g_response' = Some(fc_cache[key])
                  /\ UNCHANGED <<fc_cache, fc_fetched_at, fc_last_forecast_time, fc_sets>>
      ]_vars

\* C39 witness: a call for 1 day, timezone UTC and the variable "v" alone has
\* been answered from the cache with the snapshot a call for 3 days, timezone
\* auto and the default variables had fetched.
C39_Witness ==
    /\ g_pc = "done"
    /\ g_cached
    /\ ~g_fetched
    /\ g_req.days = 1
    /\ g_req.timezone = "UTC"
    /\ g_req.variables = Some(<<"v">>)
    /\ g_response = Some(ApiForecast([g_req EXCEPT !.days = 3, !.timezone = "auto",
                                                   !.variables = None]))
    /\ ApiForecast(g_req) # Unwrap(g_response)


----------------------------------------------------------------------------
(* SpecPartitionKey: get_historical (client.py 567-726) called for one location
   with different variables and timezone over the same months *)

\* the calls of SpecPartitionKey: the untrimmed ones of Spec, each with either
\* timezone
PartitionKeyCalls ==
    IF pc # "idle" \/ calls >= MaxCalls THEN {}
    ELSE {[r EXCEPT !.timezone = tz] :
             r \in {v \in ValidCalls(resolution) : ~v.trim_to_range}, tz \in {"auto", "UTC"}}

NextPartitionKey ==
    \/ \E r \in PartitionKeyCalls : Call(r)
    \/ \E io \in WriteOutcomes \cap {"ok"} : FetchReturns(io)
    \/ \E e \in FetchErrors : FetchRaises(e)
    \/ Finish
    \/ Return(FALSE)

SpecPartitionKey == Init /\ [][NextPartitionKey]_vars

\* the section of the resolution of the running call in a response dict
SectionOf(data) == Get(data, data_key(req.step), EmptyDict)

\* C40: a get_historical call does not fetch a month of its window that has a
\* partition file and is not recent, whatever variables and timezone it asks
\* for; when nothing is fetched, the returned series has the timezone of the
\* first stored fragment it folded and the variables of the stored fragments,
\* not those of the call, and no file is written.
C40_PartitionKeyIgnoresVariablesAndTimezone ==
    [][/\ (pc = "idle" /\ pc' # "idle" /\ error' = "") =>
              \A k \in WindowMonths(req') :
                  (/\ CacheFile(req'.latitude, req'.longitude, req'.step, k) \in DOMAIN files
                   /\ ~IsMonthRecent(k, today)) => k \notin Range(missing_months')
       /\ (pc = "finish" /\ pc' = "done" /\ missing_months = <<>> /\ folded' # <<>>) =>
              /\ fetched = <<>>
              /\ files' = files
              /\ Unwrap(response')["timezone"] = Unwrap(Partition(folded'[1]))["timezone"]
              /\ DOMAIN SectionOf(Unwrap(response')) =
                     UNION {DOMAIN SectionOf(Unwrap(Partition(folded'[i]))) :
                               i \in 1..Len(folded')}
      ]_vars

\* C40 witness: a call asking for the default variables in timezone UTC found
\* its month cached by a call that had asked for "v" alone in timezone auto; it
\* fetched nothing and returned a series with "v" alone, in timezone auto.
C40_Witness ==
    /\ pc = "done"
    /\ error = ""
    /\ missing_months = <<>>
    /\ fetched = <<>>
    /\ folded # <<>>
    /\ IsNone(req.variables)
    /\ req.timezone = "UTC"
    /\ Unwrap(response)["timezone"] = "auto"
    /\ DOMAIN SectionOf(Unwrap(response)) = {"time", "v"}

====
